---- MODULE Spec2Model ----
(***************************************************************************)
(* Verification model of the backend execution runtime of the inference    *)
(* server: OnnxBackend::Context::Run (src/backends/onnx/onnx_backend.cc)    *)
(* and BaseBackend::Context::Run (src/backends/tensorflow/base_backend.cc).*)
(* One Run call on one execution context is modelled step by step: entry   *)
(* checks, input assembly, engine run, output dispersion, return.          *)
(* The construction of the execution contexts of a model                   *)
(* (CreateExecutionContexts / CreateExecutionContext of both backends) is  *)
(* modelled as a second state machine with its own specifications.         *)
(***************************************************************************)
EXTENDS Integers, Sequences, FiniteSets, TLC

(***************************************************************************)
(* Bounds of the model.                                                    *)
(***************************************************************************)
MaxPayloads == 2        \* payloads in one delivered batch
MaxRequestBatch == 2    \* largest batch size of one request
MaxConfigBatch == 2     \* largest configured max_batch_size
MaxStrLen == 1          \* longest string element drawn for a string input
MaxElems == 2           \* most string elements encoded in one payload buffer
MaxCut == 1             \* most bytes cut off the end of an encoded buffer
MaxFaults == 1          \* collaborator failures injected in one Run
NOutputs == 1           \* outputs declared by the smallest model configuration
MaxBatchBytes == 10     \* most input bytes carried by one batch

(***************************************************************************)
(* Program constants.                                                      *)
(***************************************************************************)
NO_BATCHING == 0
SizeofU32 == 4

(***************************************************************************)
(* Byte strings and the string wire format: (u32 length, bytes) per        *)
(* element, little-endian.                                                 *)
(***************************************************************************)
U32LE(n) ==
  <<n % 256, (n \div 256) % 256, (n \div 65536) % 256, (n \div 16777216) % 256>>

\* *(reinterpret_cast<const uint32_t*>(p)) at 0-based offset off of buf
ReadU32(buf, off) ==
  buf[off + 1] + 256 * buf[off + 2] + 65536 * buf[off + 3]
    + 16777216 * buf[off + 4]

RECURSIVE SumSeq(_)
SumSeq(s) == IF s = <<>> THEN 0 ELSE Head(s) + SumSeq(Tail(s))

RECURSIVE Product(_)
Product(s) == IF s = <<>> THEN 1 ELSE Head(s) * Product(Tail(s))

Fill(n, v) == [i \in 1..n |-> v]

BytesUpTo(alphabet, n) == UNION {[1..k -> alphabet] : k \in 0..n}

\* the wire encoding of a list of string elements
RECURSIVE EncodeStrings(_)
EncodeStrings(ss) ==
  IF ss = <<>> THEN <<>>
  ELSE U32LE(Len(Head(ss))) \o Head(ss) \o EncodeStrings(Tail(ss))

(***************************************************************************)
(* Status is modelled by its code.  Failures reported by collaborators     *)
(* (buffer copies, content fetch, output allocation, the engine) carry the *)
(* code INTERNAL.                                                          *)
(***************************************************************************)
StatusCodes == {"OK", "INTERNAL", "INVALID_ARG"}
IsOk(st) == st = "OK"

Backends == {"onnx", "tf"}
DataTypes == {"STRING", "UINT8"}

\* GetDataTypeByteSize for the fixed-size type of the model (TYPE_UINT8)
GetDataTypeByteSize(dt) == IF dt = "UINT8" THEN 1 ELSE 0

VARIABLES
  backend,            \* which backend's Context::Run is executing
  config_max_batch_size, \* Config().max_batch_size() of the model
  max_batch_size,     \* Context::max_batch_size_
  dtype,              \* data type of the request's input and of the outputs
  dims,               \* declared dims of the input in the request
  payloads,           \* the batch handed to Run: request part of each payload
  entry_status,       \* payload.status_ of each payload when Run was called
  status,             \* payload.status_ of each payload
  pc,                 \* position of Run
  ret,                \* Status returned by Run ("none" while running)
  total_batch_size,   \* local of Run
  input_tensor,       \* elements of the engine input tensor
  output_tensors,     \* output name -> elements of the engine output tensor
  n_input_tensors,    \* size of the per-run input tensor collection
  n_output_tensors,   \* size of the per-run output tensor collection
  engine_runs,        \* number of engine invocations by this Run
  asked,              \* per payload: outputs for which AllocateOutputBuffer ran
  outbuf,             \* per payload: output name -> bytes written to its buffer
  alloc,              \* per payload: output name -> byte size of the buffer allocated
  nset,               \* per payload: number of assignments to status_ by Run
  first_err,          \* per payload: first non-OK status Run assigned, or "OK"
  input_shape,        \* shape given to the engine for the input tensor
  input_tensors_,     \* ONNX context: handles of the run's input tensors
  output_tensors_,    \* ONNX context: handles of the run's output tensors
  released,           \* handle -> number of times it was released
  created,            \* number of engine tensors this Run has created
  faults,             \* collaborator failures injected so far in this Run
  fault_budget,       \* collaborator failures that may still be injected
  asked_with,         \* per payload: its status_ values when a provider was asked
  enable_gpu,         \* TRTIS_ENABLE_GPU: copies may be enqueued on stream_
  stream_,            \* copies enqueued on the context's stream, not yet synchronized
  enqueued,           \* copies this Run has enqueued on stream_ so far
  read_early,         \* readers that read the target of a copy still on stream_
  config_output,      \* Config().output(): names of the outputs of the model
  stats_,             \* per payload: whether payload.stats_ is not null
  timestamps          \* per payload: the timestamps captured on its stats_

\* state of the construction of the execution contexts of the models
VARIABLES
  build_flags,        \* compile-time switches of the build of the server
  models,             \* per model: its configuration and its model file
  bpc,                \* per model: position of the thread building it
  instances,          \* per model: devices of the instances still to create
  contexts_,          \* per model: the contexts stored by the backend
  total_context_cnt,  \* per model: contexts counted by the creation loop
  failures,           \* per model: CreateExecutionContext calls that failed
  runners,            \* per model: runners registered with the scheduler
  build_ret,          \* per model: status returned by the build
  need_lock,          \* per model: need_lock of the context being created
  global_context_mu,  \* holder of the process-wide mutex, 0 when free
  running,            \* per model: runner indices whose thread is inside Run
  build_fault_budget  \* collaborator failures still to be injected

runVars == <<backend, config_max_batch_size, max_batch_size, dtype, dims,
             payloads, entry_status, status, pc, ret,
             total_batch_size, input_tensor, output_tensors, n_input_tensors,
             n_output_tensors, engine_runs, asked, outbuf, alloc, nset,
             first_err, created, faults, fault_budget, input_shape,
             input_tensors_, output_tensors_, released, asked_with,
             enable_gpu, stream_, enqueued, read_early, config_output,
             stats_, timestamps>>

buildVars == <<build_flags, models, bpc, instances, contexts_, total_context_cnt,
               failures, runners, build_ret, need_lock, global_context_mu,
               running, build_fault_budget>>

\* state of the server status manager and of the threads calling it
VARIABLES
  server_status_,     \* ServerStatusManager::server_status_.model_status
  mu_,                \* thread inside a method under mu_, 0 when it is free
  threads,            \* threads calling the manager
  call,               \* per thread: the method it is inside of, with its locals
  call_ret,           \* per thread: Status returned by its last call
  got,                \* per thread: ServerStatus filled by its last Get
  ncalls,             \* calls made so far
  calls_since_init,   \* model, version -> calls made since InitForModel
  readded             \* models logged as re-added with a version status recorded

statusVars == <<server_status_, mu_, threads, call, call_ret, got, ncalls,
                calls_since_init, readded>>

vars == <<runVars, buildVars, statusVars>>

\* nothing calls the status manager
StatusUnused ==
  /\ server_status_ = <<>>
  /\ mu_ = 0
  /\ threads = {}
  /\ call = <<>>
  /\ call_ret = <<>>
  /\ got = <<>>
  /\ ncalls = 0
  /\ calls_since_init = <<>>
  /\ readded = {}

\* no model is being built
BuildUnused ==
  /\ build_flags = [gpu |-> FALSE, tensorrt |-> FALSE, openvino |-> FALSE]
  /\ models = <<>>
  /\ bpc = <<>>
  /\ instances = <<>>
  /\ contexts_ = <<>>
  /\ total_context_cnt = <<>>
  /\ failures = <<>>
  /\ runners = <<>>
  /\ build_ret = <<>>
  /\ need_lock = <<>>
  /\ global_context_mu = 0
  /\ running = <<>>
  /\ build_fault_budget = 0

(***************************************************************************)
(* Per-payload status bookkeeping.  ps is a record of three sequences      *)
(* indexed by payload: status (payload.status_), nset and first_err (the   *)
(* history of the assignments Run makes to it).                            *)
(***************************************************************************)
Assign(ps, k, st) ==
  [status |-> [ps.status EXCEPT ![k] = st],
   nset |-> [ps.nset EXCEPT ![k] = @ + 1],
   first_err |-> [ps.first_err EXCEPT ![k] = IF @ = "OK" THEN st ELSE @]]

\* product of the declared dims: batch1_element_cnt
Batch1ElementCnt(d) == Product(d)

(***************************************************************************)
(* TensorFlow backend: string input assembly.  The tensor is a sequence of *)
(* elements; code index i is element i + 1.                                *)
(***************************************************************************)
TensorSetString(tensor, idx, s) ==
  [i \in DOMAIN tensor |-> IF i = idx + 1 THEN s ELSE tensor[i]]

FillStringTensor(tensor, idx, cnt) ==
  [i \in DOMAIN tensor |->
     IF i - 1 >= idx /\ i - 1 < idx + cnt THEN <<>> ELSE tensor[i]]

\* the while loop of SetStringInputTensor for one payload
RECURSIVE TFParseLoop(_, _, _, _, _, _)
TFParseLoop(tensor, base, content, off, element_idx, expected) ==
  IF Len(content) - off < SizeofU32
  THEN [tensor |-> tensor, element_idx |-> element_idx, err |-> "OK"]
  ELSE IF element_idx >= expected
  THEN [tensor |-> FillStringTensor(tensor, base + element_idx,
                                    expected - element_idx),
        element_idx |-> element_idx, err |-> "INVALID_ARG"]
  ELSE LET len == ReadU32(content, off)
           rest == Len(content) - off - SizeofU32
       IN IF rest < len
          THEN [tensor |-> FillStringTensor(tensor, base + element_idx,
                                            expected - element_idx),
                element_idx |-> element_idx, err |-> "INVALID_ARG"]
          ELSE TFParseLoop(
                 TensorSetString(tensor, base + element_idx,
                   SubSeq(content, off + SizeofU32 + 1, off + SizeofU32 + len)),
                 base, content, off + SizeofU32 + len, element_idx + 1,
                 expected)

\* the payload loop of SetStringInputTensor; fetch_fail is the set of
\* payloads whose GetContiguousInputContent fails
RECURSIVE SetStringInputTensor(_, _, _, _, _, _, _)
SetStringInputTensor(k, tensor, tensor_element_idx, ps, pls, b1, fetch_fail) ==
  IF k > Len(pls) THEN [tensor |-> tensor, ps |-> ps]
  ELSE
    LET expected == pls[k].batch_size * b1
        ps1 == Assign(ps, k, IF k \in fetch_fail THEN "INTERNAL" ELSE "OK")
    IN IF ~IsOk(ps1.status[k])
       THEN \* 'continue': tensor_element_idx is not advanced
            SetStringInputTensor(k + 1,
              FillStringTensor(tensor, tensor_element_idx, expected),
              tensor_element_idx, ps1, pls, b1, fetch_fail)
       ELSE
         LET r == TFParseLoop(tensor, tensor_element_idx, pls[k].content, 0, 0,
                              expected)
             ps2 == IF r.err # "OK" THEN Assign(ps1, k, r.err) ELSE ps1
             short == IsOk(ps2.status[k]) /\ r.element_idx # expected
             ps3 == IF short THEN Assign(ps2, k, "INTERNAL") ELSE ps2
             t3 == IF short
                   THEN FillStringTensor(r.tensor,
                          tensor_element_idx + r.element_idx,
                          expected - r.element_idx)
                   ELSE r.tensor
         IN SetStringInputTensor(k + 1, t3, tensor_element_idx + expected, ps3,
                                 pls, b1, fetch_fail)

(***************************************************************************)
(* BackendContext::SetInputBuffer: copies each payload's input region into *)
(* its slot of the contiguous input buffer and sets the payload's status   *)
(* when its copy fails.  A slot whose copy failed keeps whatever the       *)
(* freshly allocated buffer held (garbage).                                *)
(***************************************************************************)
RECURSIVE SetInputBuffer(_, _, _, _, _, _)
SetInputBuffer(k, buf, ps, pls, copy_fail, garbage) ==
  IF k > Len(pls) THEN [buf |-> buf, ps |-> ps]
  ELSE IF IsOk(ps.status[k]) /\ k \notin copy_fail
  THEN SetInputBuffer(k + 1, buf \o pls[k].content, ps, pls, copy_fail,
                      garbage)
  ELSE SetInputBuffer(k + 1, buf \o Fill(Len(pls[k].content), garbage),
                      IF k \in copy_fail THEN Assign(ps, k, "INTERNAL") ELSE ps,
                      pls, copy_fail, garbage)

(***************************************************************************)
(* ONNX backend: string input assembly.  Pointers into the input buffer    *)
(* are 0-based offsets; EmptyPtr is the static empty string.               *)
(***************************************************************************)
EmptyPtr == 0 - 1

\* variant of the while loop that trusts every length prefix
RECURSIVE UncheckedParseLoop(_, _, _, _, _, _)
UncheckedParseLoop(buf, data_content, remaining_bytes, element_cnt, expected, string_data) ==
  IF remaining_bytes < SizeofU32
  THEN [buf |-> buf, element_cnt |-> element_cnt,
        string_data |-> string_data, err |-> "OK"]
  ELSE IF element_cnt >= expected
  THEN [buf |-> buf, element_cnt |-> element_cnt,
        string_data |-> string_data, err |-> "INVALID_ARG"]
  ELSE LET len == ReadU32(buf, data_content)
           rest == remaining_bytes - SizeofU32
           buf1 == [buf EXCEPT ![data_content + 1] = 0]
           dc1 == data_content + SizeofU32
       IN UncheckedParseLoop(buf1, dc1 + len, rest - len, element_cnt + 1,
                             expected, Append(string_data, dc1))

\* the while loop of SetStringInputBuffer for one payload
RECURSIVE OnnxParseLoop(_, _, _, _, _, _)
OnnxParseLoop(buf, data_content, remaining_bytes, element_cnt, expected, string_data) ==
  IF remaining_bytes < SizeofU32
  THEN [buf |-> buf, element_cnt |-> element_cnt,
        string_data |-> string_data, err |-> "OK"]
  ELSE IF element_cnt >= expected
  THEN [buf |-> buf, element_cnt |-> element_cnt,
        string_data |-> string_data, err |-> "INVALID_ARG"]
  ELSE LET len == ReadU32(buf, data_content)
           rest == remaining_bytes - SizeofU32
           buf1 == [buf EXCEPT ![data_content + 1] = 0]
           dc1 == data_content + SizeofU32
       IN IF len > rest
          THEN [buf |-> buf1, element_cnt |-> element_cnt,
                string_data |-> string_data, err |-> "INVALID_ARG"]
          ELSE OnnxParseLoop(buf1, dc1 + len, rest - len, element_cnt + 1,
                             expected, Append(string_data, dc1))

FillStringData(string_data, cnt) == string_data \o Fill(cnt, EmptyPtr)

\* the payload loop of SetStringInputBuffer
RECURSIVE SetStringInputBuffer(_, _, _, _, _, _, _)
SetStringInputBuffer(idx, buf, buffer_copy_offset, string_data, ps, pls, b1) ==
  IF idx > Len(pls)
  THEN [buf |-> buf, string_data |-> string_data, ps |-> ps]
  ELSE
    LET expected_byte_size == Len(pls[idx].content)
        expected_element_cnt == pls[idx].batch_size * b1
        r == IF IsOk(ps.status[idx])
             THEN OnnxParseLoop(buf, buffer_copy_offset, expected_byte_size, 0,
                                expected_element_cnt, string_data)
             ELSE [buf |-> buf, element_cnt |-> 0,
                   string_data |-> string_data, err |-> "OK"]
        ps1 == IF r.err # "OK" THEN Assign(ps, idx, r.err) ELSE ps
    IN SetStringInputBuffer(idx + 1, r.buf,
         buffer_copy_offset + expected_byte_size,
         FillStringData(r.string_data, expected_element_cnt - r.element_cnt),
         ps1, pls, b1)

\* the C string FillStringTensor reads at a pointer: bytes up to the first 0
RECURSIVE CString(_, _)
CString(buf, ptr) ==
  IF ptr = EmptyPtr \/ ptr + 1 > Len(buf) \/ buf[ptr + 1] = 0 THEN <<>>
  ELSE <<buf[ptr + 1]>> \o CString(buf, ptr + 1)

\* SetInputTensor, string branch: parse, terminate the last element, fill
OnnxStringInputTensor(buf, ps, pls, b1) ==
  LET r == SetStringInputBuffer(1, buf, 0, <<>>, ps, pls, b1)
      final == r.buf \o <<0>>   \* input_buffer_[total_byte_size] = 0
  IN [tensor |-> [i \in 1..Len(r.string_data) |->
                    CString(final, r.string_data[i])],
      ps |-> r.ps]

(***************************************************************************)
(* Output dispersion.  os is a record: ps (status bookkeeping), asked and  *)
(* outbuf (per payload: the outputs AllocateOutputBuffer was called for,   *)
(* and output name -> bytes written).  Unwritten bytes of an allocated     *)
(* buffer are Unwritten.  A fault is a tuple <<kind, payload, output, n>>. *)
(***************************************************************************)
Unwritten == 0 - 1

RequiresOutput(pl, name) == name \in pl.requires

Wants(pl, name) == pl.provider /\ RequiresOutput(pl, name)

\* as NextOffset, but only a payload that was given the output advances
NextOffsetIfWritten(offset, written, expected) ==
  IF written THEN offset + expected ELSE offset

\* the offset of the next payload's slice: the loop advances it by the
\* payload's expected size after the payload, written or not
NextOffset(offset, written, expected) == offset + expected

Asked(os, k, name, bytes) ==
  [os EXCEPT !.asked[k] = @ \cup {name}, !.outbuf[k][name] = bytes,
             !.asked_with[k] = @ \cup {os.ps.status[k]}]

\* AllocateOutputBuffer returned a buffer of byte_size bytes
Allocated(os, k, name, byte_size) == [os EXCEPT !.alloc[k][name] = byte_size]

\* offsets[first + cnt] - offsets[first]: the data bytes of cnt elements
RECURSIVE DataByteSize(_, _, _)
DataByteSize(tensor, first, cnt) ==
  IF cnt = 0 THEN 0
  ELSE Len(tensor[first + 1]) + DataByteSize(tensor, first + 1, cnt - 1)

\* serialized form of elements first+1 .. first+cnt of a string tensor
RECURSIVE SerializeStrings(_, _, _)
SerializeStrings(tensor, first, cnt) ==
  IF cnt = 0 THEN <<>>
  ELSE U32LE(Len(tensor[first + 1])) \o tensor[first + 1]
         \o SerializeStrings(tensor, first + 1, cnt - 1)

\* ONNX SetStringOutputBuffer, the copies of one payload: two CopyBuffer
\* calls per element, each assigned to payload.status_; copy number 'bad'
\* (1-based over the 2 * cnt copies, 0 for none) fails
RECURSIVE OnnxCopyElements(_, _, _, _, _)
OnnxCopyElements(ps, k, e, cnt, bad) ==
  IF e >= cnt THEN ps
  ELSE LET st1 == IF bad = 2 * e + 1 THEN "INTERNAL" ELSE "OK"
           st2 == IF bad = 2 * e + 2 THEN "INTERNAL" ELSE "OK"
       IN OnnxCopyElements(Assign(Assign(ps, k, st1), k, st2), k, e + 1, cnt,
                           bad)

\* as OnnxCopiedBytes, but an empty element is copied without its length
RECURSIVE CopiedBytesSkippingEmpty(_, _, _, _, _)
CopiedBytesSkippingEmpty(tensor, first, e, cnt, bad) ==
  IF e >= cnt THEN <<>>
  ELSE LET s == tensor[first + e + 1]
       IN (IF Len(s) = 0 THEN <<>> ELSE U32LE(Len(s)) \o s)
          \o CopiedBytesSkippingEmpty(tensor, first, e + 1, cnt, bad)

\* bytes of the payload's buffer after the copies, copy number bad failing
RECURSIVE OnnxCopiedBytes(_, _, _, _, _)
OnnxCopiedBytes(tensor, first, e, cnt, bad) ==
  IF e >= cnt THEN <<>>
  ELSE LET s == tensor[first + e + 1]
           len == Len(s)
       IN (IF bad = 2 * e + 1 THEN Fill(SizeofU32, Unwritten) ELSE U32LE(len))
          \o (IF bad = 2 * e + 2 THEN Fill(len, Unwritten) ELSE s)
          \o OnnxCopiedBytes(tensor, first, e + 1, cnt, bad)

FaultAt(fs, kind, k, name) == {f \in fs : f[1] = kind /\ f[2] = k /\ f[3] = name}

BadCopy(fs, k, name) ==
  IF FaultAt(fs, "copy_out", k, name) = {} THEN 0
  ELSE (CHOOSE f \in FaultAt(fs, "copy_out", k, name) : TRUE)[4]

\* the payload loop of ONNX SetStringOutputBuffer for output 'name'
RECURSIVE SetStringOutputBuffer(_, _, _, _, _, _, _, _)
SetStringOutputBuffer(k, element_idx, os, pls, name, batch1_element_cnt, tensor, fs) ==
  IF k > Len(pls) THEN os
  ELSE
    LET expected_element_cnt == pls[k].batch_size * batch1_element_cnt
        os1 ==
          IF Wants(pls[k], name)
          THEN IF FaultAt(fs, "alloc", k, name) # {}
               THEN [Asked(os, k, name, <<>>) EXCEPT
                       !.ps = Assign(os.ps, k, "INTERNAL")]
               ELSE [Asked(Allocated(os, k, name,
                             DataByteSize(tensor, element_idx,
                                          expected_element_cnt)
                               + SizeofU32 * expected_element_cnt),
                           k, name,
                           OnnxCopiedBytes(tensor, element_idx, 0,
                             expected_element_cnt, BadCopy(fs, k, name)))
                       EXCEPT !.ps = OnnxCopyElements(os.ps, k, 0,
                                       expected_element_cnt,
                                       BadCopy(fs, k, name))]
          ELSE os
    IN SetStringOutputBuffer(k + 1,
         NextOffset(element_idx, Wants(pls[k], name), expected_element_cnt),
         os1, pls, name, batch1_element_cnt, tensor, fs)

\* the payload loop of TensorFlow ReadStringOutputTensor for output 'name'
RECURSIVE ReadStringOutputTensor(_, _, _, _, _, _, _, _)
ReadStringOutputTensor(k, tensor_element_idx, os, pls, name, batch1_element_cnt, tensor, fs) ==
  IF k > Len(pls) THEN os
  ELSE
    LET expected_element_cnt == pls[k].batch_size * batch1_element_cnt
        serialized == SerializeStrings(tensor, tensor_element_idx,
                                       expected_element_cnt)
        st == IF FaultAt(fs, "alloc", k, name) # {}
                 \/ FaultAt(fs, "copy_out", k, name) # {}
              THEN "INTERNAL" ELSE "OK"
        bytes == IF FaultAt(fs, "alloc", k, name) # {} THEN <<>>
                 ELSE IF FaultAt(fs, "copy_out", k, name) # {}
                 THEN Fill(Len(serialized), Unwritten)
                 ELSE serialized
        os1 ==
          IF IsOk(os.ps.status[k]) /\ Wants(pls[k], name)
          THEN [Asked(IF FaultAt(fs, "alloc", k, name) # {} THEN os
                      ELSE Allocated(os, k, name, Len(serialized)),
                      k, name, bytes)
                  EXCEPT !.ps = Assign(os.ps, k, st)]
          ELSE os
    IN ReadStringOutputTensor(k + 1,
         NextOffset(tensor_element_idx,
                    IsOk(os.ps.status[k]) /\ Wants(pls[k], name),
                    expected_element_cnt),
                              os1, pls, name, batch1_element_cnt, tensor, fs)

(***************************************************************************)
(* BackendContext::SetFixedSizeOutputBuffer: for each payload that requested*)
(* the output, allocates a buffer through its response provider and copies *)
(* the payload's slice into it; a failed allocation or copy sets the       *)
(* payload's status.                                                       *)
(***************************************************************************)
RECURSIVE SetFixedSizeOutputBuffer(_, _, _, _, _, _, _, _)
SetFixedSizeOutputBuffer(k, offset, os, pls, name, batch1_byte_size, tensor, fs) ==
  IF k > Len(pls) THEN os
  ELSE
    LET expected_byte_size == pls[k].batch_size * batch1_byte_size
        slice == SubSeq(tensor, offset + 1, offset + expected_byte_size)
        os1 ==
          IF Wants(pls[k], name)
          THEN IF FaultAt(fs, "alloc", k, name) # {}
               THEN [Asked(os, k, name, <<>>) EXCEPT
                       !.ps = Assign(os.ps, k, "INTERNAL")]
               ELSE IF FaultAt(fs, "copy_out", k, name) # {}
               THEN [Asked(Allocated(os, k, name, expected_byte_size), k, name,
                           Fill(expected_byte_size, Unwritten))
                       EXCEPT !.ps = Assign(os.ps, k, "INTERNAL")]
               ELSE Asked(Allocated(os, k, name, expected_byte_size), k, name,
                          slice)
          ELSE os
    IN SetFixedSizeOutputBuffer(k + 1,
         NextOffset(offset, Wants(pls[k], name), expected_byte_size), os1, pls,
                                name, batch1_byte_size, tensor, fs)

(***************************************************************************)
(* The entry checks of Run.                                                *)
(***************************************************************************)
\* CreateExecutionContext: a config value <= 0 becomes NO_BATCHING
ContextMaxBatchSize(mbs) == IF mbs <= 0 THEN NO_BATCHING ELSE mbs

\* variant: only the last payload of the batch is looked at
LastPayloadNonOk(sts) == sts # <<>> /\ ~IsOk(sts[Len(sts)])

\* the entry loop: some payload was handed over with a non-OK status
HasNonOkPayload(sts) == \E k \in DOMAIN sts : ~IsOk(sts[k])

TotalBatchSize(pls) == SumSeq([k \in DOMAIN pls |-> pls[k].batch_size])

\* variant: an empty batch is not recognised
NeverEmpty(total) == FALSE

NoValidPayloads(total) == total = 0

\* variant: the limit is off by one
ExceedsMaxBatchPlusOne(total, mbs) == (total # 1) /\ (total > mbs + 1)

\* variant: NO_BATCHING is taken to mean "no limit"
ExceedsUnlessNoBatching(total, mbs) ==
  (total # 1) /\ (mbs # NO_BATCHING) /\ (total > mbs)

\* max_batch_size_ is never negative, so the cast to size_t changes nothing
ExceedsMaxBatch(total, mbs) == (total # 1) /\ (total > mbs)

Outputs == config_output

\* TensorFlow: names of the outputs requested by any payload's request
RequiredOutputs(pls) == UNION {pls[k].requires : k \in DOMAIN pls}

\* the outputs Run asks the engine for and then reads, in order
RunOutputs(be, pls) == IF be = "onnx" THEN Outputs ELSE RequiredOutputs(pls)

PayloadIds == DOMAIN payloads

PS == [status |-> status, nset |-> nset, first_err |-> first_err]

GarbageBytes == {0, 170}

\* the sets of at most n of the candidate failures
RECURSIVE SubsetsUpTo(_, _)
SubsetsUpTo(S, n) ==
  IF n = 0 THEN {{}}
  ELSE {{}} \cup {t \cup {x} : t \in SubsetsUpTo(S, n - 1), x \in S}

(***************************************************************************)
(* Run, lines 556-592 (ONNX) / 646-682 (TensorFlow): entry loop and the    *)
(* total batch size checks.                                                *)
(***************************************************************************)
\* a null tensor pointer in the context's per-run vectors
NullTensor == 0

\* handles of the engine tensors of one Run: the input, then the outputs
InputHandle == 1
OutputHandle(i) == InputHandle + i
Handles == InputHandle..OutputHandle(NOutputs + 1)

\* number of entries of vector v that hold handle h
Occurrences(v, h) == Cardinality({i \in DOMAIN v : v[i] = h})

\* as ReleaseOrtRunResources, but only for the input tensors
ReleaseInputsOnly(ins, outs, rel) ==
  [ins |-> <<>>, outs |-> outs,
   released |-> [h \in DOMAIN rel |-> rel[h] + Occurrences(ins, h)]]

\* as ReleaseOrtRunResources, but the vectors keep their entries
ReleaseWithoutClear(ins, outs, rel) ==
  [ins |-> ins, outs |-> outs,
   released |-> [h \in DOMAIN rel |->
                   rel[h] + Occurrences(ins, h) + Occurrences(outs, h)]]

\* ReleaseOrtRunResources: releases every non-null tensor of both vectors
\* and clears the vectors
ReleaseOrtRunResources(ins, outs, rel) ==
  [ins |-> <<>>, outs |-> <<>>,
   released |-> [h \in DOMAIN rel |->
                   rel[h] + Occurrences(ins, h) + Occurrences(outs, h)]]

\* the release applied to vectors ins, outs becomes the next state
Release(ins, outs) ==
  LET r == ReleaseOrtRunResources(ins, outs, released)
  IN /\ input_tensors_' = r.ins
     /\ output_tensors_' = r.outs
     /\ released' = r.released

\* as Return, but Run starts over instead of returning
RetryRun(st, ins, outs) ==
  /\ pc' = "idle"
  /\ ret' = st
  /\ n_input_tensors' = 0
  /\ n_output_tensors' = 0
  /\ Release(ins, outs)

\* Run returns st; the scoped guard releases the run's tensors, which are
\* ins and outs at this point (both empty before the guard is created)
Return(st, ins, outs) ==
  /\ pc' = "done"
  /\ ret' = st
  /\ n_input_tensors' = 0
  /\ n_output_tensors' = 0
  /\ Release(ins, outs)

\* shape of the input tensor: SetInputTensor / SetInput
InputShapeAlwaysBatched(mbs, total, d) == <<total>> \o d

InputShape(mbs, total, d) ==
  IF mbs # NO_BATCHING THEN <<total>> \o d ELSE d

(***************************************************************************)
(* Copies on the context's CUDA stream.  CopyBuffer reports in cuda_used   *)
(* whether it enqueued the copy on stream_ instead of performing it; such  *)
(* a copy has reached its target only after cudaStreamSynchronize.         *)
(***************************************************************************)
\* the values cuda_used can take for a copy of this context
CudaUsed == IF enable_gpu THEN BOOLEAN ELSE {FALSE}

\* the indirect (pinned) buffers a fixed-size tensor may go through: none,
\* or one whose copy to or from the tensor is performed or enqueued
IndirectBuffers(dt) ==
  IF enable_gpu /\ dt # "STRING" THEN {"none", "sync", "async"} ELSE {"none"}

\* CopyBuffer(..., stream_, &cuda_used) with the given value of cuda_used
Enqueue(cuda_used, stream, copy) ==
  IF cuda_used THEN stream \cup {copy} ELSE stream

\* as SyncIf, but the stream is never synchronized
NeverSync(cuda_copy, stream) == stream

\* if (cuda_copy) { cudaStreamSynchronize(stream_); }
SyncIf(cuda_copy, stream) == IF cuda_copy THEN {} ELSE stream

\* the copies of the payloads' data into the input buffer: a string input
\* is synchronized at once, a fixed-size input reports the copy in cuda_copy
InputCopy(dt, cuda_used, stream) ==
  IF dt = "STRING"
  THEN [stream |-> SyncIf(cuda_used, Enqueue(cuda_used, stream, "input")),
        cuda_copy |-> FALSE]
  ELSE [stream |-> Enqueue(cuda_used, stream, "input"),
        cuda_copy |-> cuda_used]

\* the flag after one indirect input buffer was copied: ONNX line 654 is
\* 'cuda_copy |= cuda_copy', TensorFlow line 764 'cuda_copy |= cuda_used'
GatherFlag(be, cuda_copy, cuda_used) ==
  IF be = "onnx" THEN cuda_copy \/ cuda_copy ELSE cuda_copy \/ cuda_used

\* Run between the input loop and the engine run: synchronizes the direct
\* copies, copies the indirect buffers into the tensor, synchronizes again
DeviceCopyInputs(be, cuda_copy, indirect, stream) ==
  SyncIf(GatherFlag(be, FALSE, indirect = "async"),
         Enqueue(indirect = "async", SyncIf(cuda_copy, stream), "gather"))

\* the end of the output phase: synchronizes the direct copies, copies the
\* indirect output buffers to the payloads' buffers, synchronizes again
DeviceCopyOutputs(cuda_copy, indirect, stream) ==
  SyncIf(indirect = "async",
         Enqueue(indirect = "async", SyncIf(cuda_copy, stream), "scatter"))

\* copies of input data pending on the stream
InputCopies == {"input", "gather"}

\* payload.stats_->CaptureTimestamp(kind) for every payload whose stats_ is
\* not null; the stamp is kept with the copies pending on the stream at that
\* moment
CaptureTimestamp(ts, kind, stream) ==
  [k \in DOMAIN ts |->
     IF stats_[k] THEN Append(ts[k], [kind |-> kind, pending |-> stream])
     ELSE ts[k]]

RunBegin ==
  /\ pc = "idle"
  /\ IF HasNonOkPayload(status)
     THEN /\ Return("INTERNAL", input_tensors_, output_tensors_)
          /\ UNCHANGED total_batch_size
     ELSE LET total == TotalBatchSize(payloads)
          IN /\ total_batch_size' = total
             /\ IF NoValidPayloads(total)
                THEN Return("OK", input_tensors_, output_tensors_)
                ELSE IF ExceedsMaxBatch(total, max_batch_size)
                THEN Return("INTERNAL", input_tensors_, output_tensors_)
                ELSE /\ pc' = "staging"
                     /\ UNCHANGED <<ret, n_input_tensors, n_output_tensors,
                                    input_tensors_, output_tensors_, released>>
  /\ UNCHANGED <<buildVars, statusVars>>
  /\ UNCHANGED <<backend, config_max_batch_size, max_batch_size, dtype, dims,
                 payloads, entry_status, status,
                 input_tensor, output_tensors, engine_runs, asked, outbuf,
                 alloc, nset, first_err, created, faults, fault_budget,
                 input_shape, asked_with, enable_gpu, stream_, enqueued, read_early,
                 config_output, stats_, timestamps>>

(***************************************************************************)
(* Input assembly: SetInputTensor (ONNX) / SetInput (TensorFlow) for the   *)
(* input of the representative request.                                    *)
(***************************************************************************)
InputFaults ==
  SubsetsUpTo({<<"copy_in", k, 0, 0>> : k \in PayloadIds}
                \cup {<<"tensor", 0, 0, 0>>}, fault_budget)

FailedCopies(fs) == {k \in PayloadIds : <<"copy_in", k, 0, 0>> \in fs}

\* result of assembling the input: the engine tensor and the statuses
AssembleInput(be, dt, pls, ps, b1, total, fs, garbage) ==
  IF dt = "STRING" /\ be = "tf"
  THEN SetStringInputTensor(1, Fill(total * b1, <<>>), 0, ps, pls, b1,
                            FailedCopies(fs))
  ELSE LET sib == SetInputBuffer(1, <<>>, ps, pls, FailedCopies(fs), garbage)
       IN IF dt = "STRING"
          THEN OnnxStringInputTensor(sib.buf, sib.ps, pls, b1)
          ELSE [tensor |-> sib.buf, ps |-> sib.ps]

SetInputs ==
  /\ pc = "staging"
  /\ \E fs \in InputFaults :
       \E garbage \in IF FailedCopies(fs) = {} THEN {0} ELSE GarbageBytes :
       \E cuda_used \in CudaUsed, indirect \in IndirectBuffers(dtype) :
         LET r == AssembleInput(backend, dtype, payloads, PS,
                                Batch1ElementCnt(dims), total_batch_size, fs,
                                garbage)
             ic == InputCopy(dtype, cuda_used, stream_)
         IN /\ faults' = faults \cup fs /\ fault_budget' = fault_budget - Cardinality(fs)
            /\ read_early' =
                 IF dtype = "STRING" /\ "input" \in ic.stream
                 THEN read_early \cup {"parse"} ELSE read_early
            /\ stream_' =
                 IF <<"tensor", 0, 0, 0>> \in fs
                 THEN \* ONNX creates the tensor after the copies into the
                      \* buffer, TensorFlow before them
                      IF backend = "onnx" THEN ic.stream ELSE stream_
                 ELSE DeviceCopyInputs(backend, ic.cuda_copy, indirect,
                                       ic.stream)
            /\ timestamps' =
                 IF <<"tensor", 0, 0, 0>> \in fs THEN timestamps
                 ELSE CaptureTimestamp(timestamps, "kComputeInputEnd",
                        DeviceCopyInputs(backend, ic.cuda_copy, indirect,
                                         ic.stream))
            /\ enqueued' =
                 Enqueue(indirect = "async" /\ <<"tensor", 0, 0, 0>> \notin fs,
                         Enqueue(cuda_used /\ (backend = "onnx"
                                               \/ <<"tensor", 0, 0, 0>> \notin fs),
                                 enqueued, "input"),
                         "gather")
            /\ created' = created + 1
            /\ input_shape' = InputShape(max_batch_size, total_batch_size, dims)
            /\ IF <<"tensor", 0, 0, 0>> \in fs
               THEN \* the engine tensor cannot be created: Run returns,
                    \* the vector holding the null pointer emplaced for it
                    /\ Return("INTERNAL",
                              IF backend = "onnx"
                              THEN Append(input_tensors_, NullTensor)
                              ELSE input_tensors_, output_tensors_)
                    /\ UNCHANGED <<status, nset, first_err, input_tensor>>
               ELSE /\ status' = r.ps.status
                    /\ nset' = r.ps.nset
                    /\ first_err' = r.ps.first_err
                    /\ input_tensor' = r.tensor
                    /\ n_input_tensors' = n_input_tensors + 1
                    /\ n_output_tensors' =
                         IF backend = "onnx" THEN Cardinality(Outputs) ELSE 0
                    /\ input_tensors_' =
                         IF backend = "onnx"
                         THEN Append(input_tensors_, InputHandle)
                         ELSE input_tensors_
                    /\ output_tensors_' =
                         IF backend = "onnx"
                         THEN [i \in Outputs |-> NullTensor]
                         ELSE output_tensors_
                    /\ pc' = "staged"
                    /\ UNCHANGED <<ret, released>>
  /\ UNCHANGED <<buildVars, statusVars>>
  /\ UNCHANGED <<backend, config_max_batch_size, max_batch_size, dtype, dims,
                 payloads, entry_status,
                 total_batch_size, output_tensors, engine_runs, asked, outbuf,
                 alloc, asked_with, enable_gpu, config_output, stats_>>

(***************************************************************************)
(* The engine run.  The engine is the identity: every output tensor holds  *)
(* the elements of the input tensor.                                       *)
(***************************************************************************)
EngineFaults == SubsetsUpTo({<<"engine", 0, 0, 0>>}, fault_budget)

EngineRun ==
  /\ pc = "staged"
  /\ engine_runs' = engine_runs + 1
  /\ read_early' = IF stream_ \cap InputCopies # {}
                   THEN read_early \cup {"engine"} ELSE read_early
  /\ \E fs \in EngineFaults :
       /\ faults' = faults \cup fs /\ fault_budget' = fault_budget - Cardinality(fs)
       /\ IF fs # {}
          THEN /\ Return("INTERNAL", input_tensors_, output_tensors_)
               /\ UNCHANGED <<output_tensors, created, timestamps>>
          ELSE /\ timestamps' = CaptureTimestamp(timestamps,
                                   "kComputeOutputStart", stream_)
               /\ output_tensors' =
                    [o \in RunOutputs(backend, payloads) |-> input_tensor]
               /\ created' = created + Cardinality(RunOutputs(backend, payloads))
               /\ n_output_tensors' = Cardinality(RunOutputs(backend, payloads))
               /\ output_tensors_' =
                    [i \in DOMAIN output_tensors_ |-> OutputHandle(i)]
               /\ pc' = "ran"
               /\ UNCHANGED <<ret, n_input_tensors, input_tensors_, released>>
  /\ UNCHANGED <<buildVars, statusVars>>
  /\ UNCHANGED <<backend, config_max_batch_size, max_batch_size, dtype, dims,
                 payloads, entry_status, status,
                 total_batch_size, input_tensor, asked, outbuf, alloc, nset,
                 first_err, input_shape, asked_with, enable_gpu, stream_,
                 enqueued, config_output, stats_>>

(***************************************************************************)
(* Output dispersion: ReadOutputTensors (ONNX), Run lines 803-872          *)
(* (TensorFlow), then return.                                              *)
(***************************************************************************)
\* CopyBuffer calls made for one payload and one output
NCopies(be, dt, pl, b1) ==
  IF be = "onnx" /\ dt = "STRING" THEN 2 * pl.batch_size * b1 ELSE 1

OutputFaultCandidates ==
  {<<"alloc", k, o, 0>> :
     k \in PayloadIds, o \in RunOutputs(backend, payloads)}
  \cup
  UNION {{<<"copy_out", k, o, j>> :
            j \in 1..NCopies(backend, dtype, payloads[k],
                             Batch1ElementCnt(dims))} :
           k \in PayloadIds, o \in RunOutputs(backend, payloads)}
  \cup
  {<<"output", 0, o, 0>> : o \in RunOutputs(backend, payloads)}

OutputFaults ==
  {fs \in SubsetsUpTo({f \in OutputFaultCandidates :
                         f[1] = "output" \/ Wants(payloads[f[2]], f[3])},
                      fault_budget) :
     \A f, g \in fs : (f[2] = g[2] /\ f[3] = g[3]) => f = g}

\* the status Run returns when an output tensor of the engine is missing or
\* has a byte size different from the expected one
BadOutput(be) == IF be = "onnx" THEN "INTERNAL" ELSE "INVALID_ARG"

\* payloads into whose buffer the loop for output 'name' copied
Copied(os, os1, name, fs) ==
  {k \in DOMAIN os.asked : /\ name \in os1.asked[k] \ os.asked[k]
                           /\ FaultAt(fs, "alloc", k, name) = {}}

\* one iteration of the output loop, for output 'name'
ReadOutput(be, dt, os, pls, name, tensor, total, fs) ==
  IF dt = "STRING"
  THEN IF be = "onnx"
       THEN SetStringOutputBuffer(1, 0, os, pls, name, Len(tensor) \div total,
                                  tensor, fs)
       ELSE ReadStringOutputTensor(1, 0, os, pls, name, Len(tensor) \div total,
                                   tensor, fs)
  ELSE SetFixedSizeOutputBuffer(1, 0, os, pls, name,
         (Len(tensor) * GetDataTypeByteSize(dt)) \div total, tensor, fs)

Min(S) == CHOOSE x \in S : \A y \in S : x <= y

\* the output loop, over the outputs not yet read, in increasing order; it
\* returns at the first output that is missing or has an unexpected size
RECURSIVE ReadOutputTensors(_, _, _, _, _, _, _, _, _)
ReadOutputTensors(be, dt, os, pls, todo, tensors, total, fs, cuda_used) ==
  IF todo = {} \/ ~IsOk(os.err) THEN os
  ELSE LET name == Min(todo)
           os1 == ReadOutput(be, dt, os, pls, name, tensors[name], total, fs)
           used == cuda_used /\ Copied(os, os1, name, fs) # {}
       IN ReadOutputTensors(be, dt,
            IF FaultAt(fs, "output", 0, name) # {}
            THEN [os EXCEPT !.err = BadOutput(be)]
            ELSE [os1 EXCEPT !.cuda_copy = @ \/ used,
                             !.stream = Enqueue(used, @, "output")],
            pls, todo \ {name}, tensors, total, fs, cuda_used)

ReadOutputs ==
  /\ pc = "ran"
  /\ \E fs \in OutputFaults :
     \E cuda_used \in CudaUsed, indirect \in IndirectBuffers(dtype) :
       LET os == ReadOutputTensors(backend, dtype,
                   [ps |-> PS, asked |-> asked, outbuf |-> outbuf,
                    alloc |-> alloc, asked_with |-> asked_with, err |-> "OK",
                    cuda_copy |-> FALSE, stream |-> stream_], payloads,
                   DOMAIN output_tensors, output_tensors, total_batch_size, fs,
                   cuda_used)
       IN /\ faults' = faults \cup fs /\ fault_budget' = fault_budget - Cardinality(fs)
          /\ status' = os.ps.status
          /\ nset' = os.ps.nset
          /\ first_err' = os.ps.first_err
          /\ asked' = os.asked
          /\ outbuf' = os.outbuf
          /\ alloc' = os.alloc
          /\ asked_with' = os.asked_with
          /\ stream_' = IF IsOk(os.err)
                        THEN DeviceCopyOutputs(os.cuda_copy, indirect, os.stream)
                        ELSE os.stream
          /\ enqueued' = Enqueue(IsOk(os.err) /\ indirect = "async",
                                 Enqueue(os.cuda_copy, enqueued, "output"),
                                 "scatter")
          /\ Return(os.err, input_tensors_, output_tensors_)
  /\ UNCHANGED <<buildVars, statusVars>>
  /\ UNCHANGED <<backend, config_max_batch_size, max_batch_size, dtype, dims,
                 payloads, entry_status,
                 total_batch_size, input_tensor, output_tensors, engine_runs,
                 created, input_shape, enable_gpu, read_early, config_output,
                 stats_, timestamps>>

(***************************************************************************)
(* ~Context: the destructor of an ONNX context releases the per-run        *)
(* tensors again (and unloads the session).  A context is destroyed only   *)
(* while no Run is executing in it.                                        *)
(***************************************************************************)
DestroyContext ==
  /\ pc \in {"idle", "done"}
  /\ pc' = "destroyed"
  /\ IF backend = "onnx"
     THEN Release(input_tensors_, output_tensors_)
     ELSE UNCHANGED <<input_tensors_, output_tensors_, released>>
  /\ UNCHANGED <<buildVars, statusVars>>
  /\ UNCHANGED <<backend, config_max_batch_size, max_batch_size, dtype, dims,
                 payloads, entry_status, status, ret, total_batch_size,
                 input_tensor, output_tensors, n_input_tensors,
                 n_output_tensors, engine_runs, asked, outbuf, alloc, nset,
                 first_err, created, faults, fault_budget, input_shape,
                 asked_with, enable_gpu, stream_, enqueued, read_early,
                 config_output, stats_, timestamps>>

Next == RunBegin \/ SetInputs \/ EngineRun \/ ReadOutputs \/ DestroyContext

(***************************************************************************)
(* Initial states: a context and one batch handed to its Run.              *)
(***************************************************************************)
Truncations(s) ==
  {SubSeq(s, 1, Len(s) - c) : c \in {c \in 0..MaxCut : c <= Len(s)}}

\* buffers of a string input: encodings of up to MaxElems elements over
\* 'alphabet', and the same with up to MaxCut bytes cut off the end
StringContents(alphabet) ==
  UNION {Truncations(EncodeStrings(l)) :
           l \in UNION {[1..n -> BytesUpTo(alphabet, MaxStrLen)] :
                          n \in 0..MaxElems}}

\* buffers of a fixed-size input: exactly as many bytes as the request
\* normalizer checked
FixedContents(alphabet, n) == [1..n -> alphabet]

\* what a payload asks for: a response provider (or none) and the outputs
\* its request names
WantsAll == {[provider |-> TRUE, requires |-> Outputs]}
WantsAllOrNoProvider ==
  WantsAll \cup {[provider |-> FALSE, requires |-> Outputs]}

PayloadSet(dt, b1, alphabet, wants) ==
  UNION {
    {[batch_size |-> b, provider |-> w.provider, requires |-> w.requires,
      content |-> c] :
       w \in wants,
       c \in IF dt = "STRING" THEN StringContents(alphabet)
             ELSE FixedContents(alphabet, b * b1 * GetDataTypeByteSize(dt))} :
    b \in 0..MaxRequestBatch}

BatchBytes(pls) == SumSeq([k \in DOMAIN pls |-> Len(pls[k].content)])

\* the batches of n payloads that carry at most MaxBatchBytes input bytes
RECURSIVE Batches(_, _, _, _, _)
Batches(n, dt, b1, alphabet, wants) ==
  IF n = 0 THEN {<<>>}
  ELSE {Append(pls, pl) :
          <<pls, pl>> \in
            {x \in Batches(n - 1, dt, b1, alphabet, wants)
                     \X PayloadSet(dt, b1, alphabet, wants) :
               BatchBytes(x[1]) + Len(x[2].content) <= MaxBatchBytes}}

\* a context whose Run is about to be called with the batch 'payloads'
InitBatch(entries, budget) ==
  /\ status \in [PayloadIds -> entries]
  /\ entry_status = status
  /\ asked = [k \in PayloadIds |-> {}]
  /\ outbuf = [k \in PayloadIds |-> [o \in Outputs |-> <<>>]]
  /\ alloc = [k \in PayloadIds |-> [o \in Outputs |-> 0]]
  /\ nset = [k \in PayloadIds |-> 0]
  /\ first_err = [k \in PayloadIds |-> "OK"]
  /\ asked_with = [k \in PayloadIds |-> {}]
  /\ timestamps = [k \in PayloadIds |-> <<>>]
  /\ stream_ = {}
  /\ enqueued = {}
  /\ read_early = {}
  /\ backend \in Backends
  /\ config_max_batch_size \in -1..MaxConfigBatch
  /\ max_batch_size = ContextMaxBatchSize(config_max_batch_size)
  /\ pc = "idle"
  /\ ret = "none"
  /\ total_batch_size = 0
  /\ input_tensor = <<>>
  /\ output_tensors = <<>>
  /\ n_input_tensors = 0
  /\ n_output_tensors = 0
  /\ engine_runs = 0
  /\ created = 0
  /\ input_shape = <<>>
  /\ input_tensors_ = <<>>
  /\ output_tensors_ = <<>>
  /\ released = [h \in Handles |-> 0]
  /\ faults = {}
  /\ fault_budget = budget
  /\ BuildUnused
  /\ StatusUnused

InitWith(dts, dimss, alphabet, entries, wants, budget) ==
  /\ dtype \in dts
  /\ dims \in dimss
  /\ \E n \in 0..MaxPayloads :
       payloads \in Batches(n, dtype, Batch1ElementCnt(dims), alphabet, wants)
  /\ InitBatch(entries, budget)

\* batches of fixed-size tensors, any entry status, payloads with or without
\* a response provider; collaborators may fail
Init ==
  /\ config_output = 1..NOutputs
  /\ enable_gpu = FALSE
  /\ InitWith({"UINT8"}, {<<1>>}, {97}, {"OK", "INTERNAL"},
              WantsAllOrNoProvider, MaxFaults)
  /\ stats_ = [k \in PayloadIds |-> FALSE]

\* the batch passes the entry checks of Run
Accepted ==
  /\ ~HasNonOkPayload(status)
  /\ ~NoValidPayloads(TotalBatchSize(payloads))
  /\ ~ExceedsMaxBatch(TotalBatchSize(payloads), max_batch_size)

\* accepted batches of string tensors, well-formed or not, whose payloads
\* require every output; no collaborator fails
InitString ==
  /\ config_output = 1..NOutputs
  /\ enable_gpu = FALSE
  /\ InitWith({"STRING"}, {<<1>>}, {97}, {"OK"}, WantsAll, 0)
  /\ stats_ = [k \in PayloadIds |-> FALSE]
  /\ Accepted

\* what a length-prefixed buffer decodes to, read from offset 'off': the
\* complete elements, whether a length prefix runs past the end, and the
\* number of trailing bytes too few to hold a prefix
RECURSIVE Decode(_, _)
Decode(content, off) ==
  IF Len(content) - off < SizeofU32
  THEN [elems |-> <<>>, overrun |-> FALSE, trailing |-> Len(content) - off]
  ELSE LET len == ReadU32(content, off)
       IN IF len > Len(content) - off - SizeofU32
          THEN [elems |-> <<>>, overrun |-> TRUE, trailing |-> 0]
          ELSE LET d == Decode(content, off + SizeofU32 + len)
               IN [d EXCEPT !.elems =
                     <<SubSeq(content, off + SizeofU32 + 1,
                              off + SizeofU32 + len)>> \o @]

ExpectedElementCnt(k) == payloads[k].batch_size * Batch1ElementCnt(dims)

\* the input buffer of payload k holds exactly the elements its request
\* announced
WellFormed(k) ==
  IF dtype = "STRING"
  THEN LET d == Decode(payloads[k].content, 0)
       IN /\ ~d.overrun
          /\ d.trailing = 0
          /\ Len(d.elems) = ExpectedElementCnt(k)
  ELSE Len(payloads[k].content) =
         ExpectedElementCnt(k) * GetDataTypeByteSize(dtype)

\* accepted batches of well-formed tensors of either type, whose elements
\* may hold the byte 0; no collaborator fails
InitRoundTrip ==
  /\ config_output = 1..NOutputs
  /\ enable_gpu = FALSE
  /\ InitWith(DataTypes, {<<1>>, <<2>>}, {0, 97}, {"OK"}, WantsAll, 0)
  /\ stats_ = [k \in PayloadIds |-> FALSE]
  /\ Accepted
  /\ \A k \in PayloadIds : WellFormed(k)

Spec == Init /\ [][Next]_vars

SpecRoundTrip == InitRoundTrip /\ [][Next]_vars

SpecString == InitString /\ [][Next]_vars


\* payloads whose elements all hold the same value, one of a few
UniformPayloads(dt, b1, wants) ==
  UNION {
    {[batch_size |-> b, provider |-> w.provider, requires |-> w.requires,
      content |-> IF dt = "STRING" THEN EncodeStrings(Fill(b * b1, e))
                  ELSE Fill(b * b1 * GetDataTypeByteSize(dt), 97 + Len(e))] :
       w \in wants, e \in {<<>>, Fill(MaxStrLen, 97)}} :
    b \in 0..MaxRequestBatch}

\* a context of a build with GPU support and a model with one output more:
\* accepted batches of well-formed tensors of either kind; copies may be
\* enqueued on the stream; sinks tells whether payloads may carry a stats sink
InitGpu(budget, sinks) ==
  /\ config_output = 1..(NOutputs + 1)
  /\ enable_gpu = TRUE
  /\ dtype \in DataTypes
  /\ dims = <<1>>
  /\ \E n \in 0..MaxPayloads :
       payloads \in [1..n -> UniformPayloads(dtype, Batch1ElementCnt(dims),
                                             WantsAllOrNoProvider)]
  /\ InitBatch({"OK"}, budget)
  /\ stats_ \in [PayloadIds -> sinks]
  /\ config_max_batch_size = MaxConfigBatch
  /\ Accepted

\* ... and collaborators may fail
InitCuda == InitGpu(MaxFaults, {FALSE})

\* ... and no collaborator fails
InitSync == InitGpu(0, {FALSE})

SpecSync == InitSync /\ [][Next]_vars

\* a build with TRTIS_ENABLE_STATS: any payload may carry a stats sink
InitStats == InitGpu(MaxFaults, BOOLEAN)

SpecStats == InitStats /\ [][Next]_vars

(***************************************************************************)
(* Properties of the entry checks.                                         *)
(***************************************************************************)
Done == pc = "done"

EntryOk == \A k \in DOMAIN entry_status : entry_status[k] = "OK"

SumOfBatchSizes == TotalBatchSize(payloads)

NoProviderAsked == \A k \in PayloadIds : asked[k] = {}

NothingStaged == created = 0 /\ input_tensor = <<>> /\ output_tensors = <<>>

\* C1: when some payload is handed to Run with a non-OK status, Run returns
\* an internal error, never runs the engine, asks no provider for an output
\* buffer and leaves every payload's status as it was.
C1_EntryStatusRejected ==
  ~EntryOk =>
    /\ pc \in {"idle", "done", "destroyed"}
    /\ Done => ret = "INTERNAL"
    /\ engine_runs = 0
    /\ NoProviderAsked
    /\ status = entry_status
    /\ \A k \in PayloadIds : nset[k] = 0

C1_Witness ==
  /\ Done
  /\ \E k \in PayloadIds : ~IsOk(entry_status[k]) /\ payloads[k].provider
  /\ \E k \in PayloadIds : IsOk(entry_status[k]) /\ payloads[k].batch_size > 0
  /\ ~ExceedsMaxBatch(SumOfBatchSizes, max_batch_size)

\* C2: in a context with max_batch_size > 0 the engine runs only for a total
\* batch size between 1 and max_batch_size; for a larger total Run returns
\* an internal error without running the engine or asking any provider.
C2_BatchLimit ==
  max_batch_size > 0 =>
    /\ engine_runs > 0 => 1 <= SumOfBatchSizes /\ SumOfBatchSizes <= max_batch_size
    /\ pc \in {"staging", "staged", "ran"} => SumOfBatchSizes <= max_batch_size
    /\ (Done /\ SumOfBatchSizes > max_batch_size) =>
         ret = "INTERNAL" /\ engine_runs = 0 /\ NoProviderAsked

C2_Witness ==
  /\ Done /\ EntryOk
  /\ max_batch_size > 0
  /\ SumOfBatchSizes = max_batch_size + 1
  /\ ret = "INTERNAL"

\* C3: in a context whose configured max_batch_size is <= 0 (NO_BATCHING,
\* stored as 0) a batch that passed the entry status loop goes on to staging
\* exactly when its total batch size is 1; a total of 2 or more makes Run
\* return an internal error.
C3_NoBatching ==
  (config_max_batch_size <= 0 /\ EntryOk) =>
    /\ max_batch_size = NO_BATCHING
    /\ pc \in {"staging", "staged", "ran"} => SumOfBatchSizes = 1
    /\ (Done /\ SumOfBatchSizes = 1) => created > 0
    /\ (Done /\ SumOfBatchSizes >= 2) =>
         ret = "INTERNAL" /\ NothingStaged /\ engine_runs = 0

C3_Witness ==
  /\ Done /\ EntryOk
  /\ config_max_batch_size < 0
  /\ SumOfBatchSizes = 2
  /\ ret = "INTERNAL"

C4_WitnessEmpty == Done /\ payloads = <<>> /\ ret = "OK"

(***************************************************************************)
(* Properties of string tensors.                                           *)
(***************************************************************************)
\* the buffer holds more elements than announced, or a length prefix that
\* runs past the end of the buffer
TooManyElements(k) ==
  LET d == Decode(payloads[k].content, 0)
  IN Len(d.elems) > ExpectedElementCnt(k)
       \/ (d.overrun /\ Len(d.elems) >= ExpectedElementCnt(k))

IncompleteElement(k) ==
  LET d == Decode(payloads[k].content, 0)
  IN d.overrun /\ Len(d.elems) < ExpectedElementCnt(k)

\* C5: a string input that holds a length prefix larger than the bytes that
\* remain, or more elements than expected, gives that payload an
\* invalid-argument status and nothing else: the engine still runs once, Run
\* returns success, and every well-formed payload keeps an OK status and is
\* asked for a buffer for every output it requires.
C5_MalformedStringFailsOnlyPayload ==
  (dtype = "STRING" /\ pc \in {"staged", "ran", "done"}) =>
    /\ \A k \in PayloadIds :
         (TooManyElements(k) \/ IncompleteElement(k)) =>
           /\ first_err[k] = "INVALID_ARG"
           /\ pc # "done" => status[k] = "INVALID_ARG"
    /\ \A k \in PayloadIds :
         WellFormed(k) =>
           /\ status[k] = "OK" /\ first_err[k] = "OK"
           /\ Done => asked[k] = payloads[k].requires
    /\ Done => ret = "OK" /\ engine_runs = 1

C5_Witness ==
  /\ Done /\ dtype = "STRING"
  /\ \E k, j \in PayloadIds :
       /\ k # j
       /\ IncompleteElement(k) /\ first_err[k] = "INVALID_ARG"
       /\ WellFormed(j) /\ payloads[j].batch_size > 0
       /\ asked[j] = Outputs /\ status[j] = "OK"

C5_WitnessTooMany ==
  /\ Done /\ dtype = "STRING"
  /\ \E k, j \in PayloadIds :
       /\ k # j
       /\ TooManyElements(k) /\ first_err[k] = "INVALID_ARG"
       /\ WellFormed(j) /\ payloads[j].batch_size > 0
       /\ asked[j] = Outputs /\ status[j] = "OK"

\* C6: a payload whose status was set to a non-OK error at some step of
\* the run still has that error as its status when Run returns.
C6_ErrorStatusKept ==
  Done => \A k \in PayloadIds :
            first_err[k] # "OK" => status[k] = first_err[k]

\* C7: one Run call never assigns the status of the same payload twice.
C7_StatusSetOnce == \A k \in PayloadIds : nset[k] <= 1

AskedForAllRequired ==
  \A k \in PayloadIds :
    payloads[k].provider => payloads[k].requires \subseteq asked[k]

SomeStatusNotOk == \E k \in PayloadIds : status[k] # "OK"

\* C8: for a batch whose payloads are all OK on entry, when Run returns
\* either every provider was asked for every output its payload requires or
\* some payload has a non-OK status.
C8_AskedOrFailed ==
  (Done /\ EntryOk) => AskedForAllRequired \/ SomeStatusNotOk

\* C9: a payload whose string input decodes to a number of elements other
\* than batch_size * batch1_element_cnt ends the run with a non-OK status.
C9_ElementCountChecked ==
  (Done /\ dtype = "STRING") =>
    \A k \in PayloadIds :
      Len(Decode(payloads[k].content, 0).elems) # ExpectedElementCnt(k) =>
        status[k] # "OK"

\* C10: with the identity engine every payload of a well-formed batch is
\* delivered, for each output, exactly the bytes it supplied (an empty
\* string as 4 zero bytes).
C10_RoundTrip ==
  Done => \A k \in PayloadIds : \A o \in Outputs :
            /\ o \in asked[k]
            /\ outbuf[k][o] = payloads[k].content

\* number of (u32 length, bytes) records that the buffers of the payloads
\* asked for output o decode to
RECURSIVE DecodedRecords(_, _)
DecodedRecords(o, n) ==
  IF n = 0 THEN 0
  ELSE (IF o \in asked[n] THEN Len(Decode(outbuf[n][o], 0).elems) ELSE 0)
         + DecodedRecords(o, n - 1)

\* C11: after a run of a string model, the buffer of every payload asked
\* for an output holds exactly the allocated number of bytes, data bytes
\* plus 4 per element, and decodes without remainder to the payload's
\* (u32 length, bytes) records; the records of all payloads together number
\* the elements of the engine's output tensor.
C11_StringOutputFraming ==
  (Done /\ IsOk(ret) /\ dtype = "STRING" /\ engine_runs = 1) =>
    \A o \in Outputs :
      /\ \A k \in PayloadIds :
           o \in asked[k] =>
             LET d == Decode(outbuf[k][o], 0)
             IN /\ Len(outbuf[k][o]) = alloc[k][o]
                /\ ~d.overrun
                /\ d.trailing = 0
                /\ Len(d.elems) = ExpectedElementCnt(k)
                /\ alloc[k][o] = SumSeq([i \in 1..Len(d.elems) |->
                                           Len(d.elems[i])])
                                   + SizeofU32 * ExpectedElementCnt(k)
      /\ (\A k \in PayloadIds : o \in asked[k]) =>
           DecodedRecords(o, Len(payloads)) = Len(output_tensors[o])

C11_Witness ==
  /\ Done /\ IsOk(ret) /\ dtype = "STRING" /\ engine_runs = 1
  /\ backend = "onnx"
  /\ Len(payloads) = 2
  /\ \A k \in PayloadIds : \A o \in Outputs :
       /\ o \in asked[k]
       /\ alloc[k][o] > SizeofU32 * ExpectedElementCnt(k)

\* C12: the shape given to the engine for an input tensor is the total
\* batch size followed by the declared dims when the context batches, and
\* exactly the declared dims when its max batch size is NO_BATCHING.
C12_InputShape ==
  created > 0 =>
    /\ max_batch_size = NO_BATCHING => input_shape = dims
    /\ max_batch_size # NO_BATCHING =>
         /\ Len(input_shape) = Len(dims) + 1
         /\ Head(input_shape) = SumOfBatchSizes
         /\ Tail(input_shape) = dims

C12_Witness ==
  /\ created > 0 /\ max_batch_size # NO_BATCHING /\ Len(payloads) = 2
  /\ input_shape = <<2>> \o dims

C12_WitnessNoBatching ==
  created > 0 /\ max_batch_size = NO_BATCHING /\ input_shape = dims

\* every engine tensor the Run created, by its handle
CreatedHandles ==
  {h \in Handles :
     \/ h = InputHandle /\ input_tensor # <<>>
     \/ \E i \in DOMAIN output_tensors : h = OutputHandle(i)}

\* C20: the release of the per-run tensors is idempotent.  The release at
\* the end of Run releases every tensor the Run created exactly once and
\* leaves both vectors empty; the second release, at the destruction of the
\* context, releases nothing: no tensor is ever released twice.
C20_ReleaseIdempotent ==
  /\ \A h \in Handles : released[h] <= 1
  /\ pc \in {"done", "destroyed"} =>
       /\ input_tensors_ = <<>> /\ output_tensors_ = <<>>
       /\ backend = "onnx" =>
            \A h \in Handles : released[h] = (IF h \in CreatedHandles THEN 1 ELSE 0)

C20_Witness ==
  /\ pc = "destroyed" /\ backend = "onnx" /\ IsOk(ret) /\ engine_runs = 1
  /\ \A h \in InputHandle..OutputHandle(Cardinality(Outputs)) :
       released[h] = 1

C20_WitnessNull ==
  /\ pc = "destroyed" /\ backend = "onnx" /\ ~IsOk(ret) /\ engine_runs = 1
  /\ released[InputHandle] = 1 /\ released[OutputHandle(1)] = 0

(***************************************************************************)
(* Construction of the execution contexts of a model:                      *)
(* OnnxBackend::CreateExecutionContextsHelper / CreateExecutionContext and *)
(* BaseBackend::CreateExecutionContexts / CreateExecutionContext.          *)
(***************************************************************************)
MaxGroups == 2          \* instance groups of one model configuration
MaxCount == 2           \* largest count of one instance group
MaxBuildFaults == 1     \* collaborator failures injected in one build
MaxBusy == 2            \* runner threads inside Run at the same time

\* devices of a context: a GPU is a natural number
NO_GPU_DEVICE == 0 - 1
MODEL_DEVICE == 0 - 2

DynamicDim == 0 - 1

kTensorRTExecutionAccelerator == "tensorrt"
kGPUIOExecutionAccelerator == "gpu_io"
kOpenVINOExecutionAccelerator == "openvino"

\* the first status of a sequence of statuses that is not OK
RECURSIVE FirstError(_)
FirstError(sts) ==
  IF sts = <<>> THEN "OK"
  ELSE IF ~IsOk(Head(sts)) THEN Head(sts) ELSE FirstError(Tail(sts))

\* the instances of one group, in the order of the creation loop: 'count'
\* times one CPU context, one MODEL_DEVICE context (TensorFlow), or one
\* context per listed GPU
RECURSIVE Replicate(_, _)
Replicate(devs, c) == IF c = 0 THEN <<>> ELSE devs \o Replicate(devs, c - 1)

GroupDevices(platform, group) ==
  IF group.kind = "KIND_CPU" THEN <<NO_GPU_DEVICE>>
  ELSE IF group.kind = "KIND_MODEL" /\ platform = "tf" THEN <<MODEL_DEVICE>>
  ELSE group.gpus

\* as InstancesOfGroup, but the count of the group is ignored
OneInstancePerGroup(platform, group) == GroupDevices(platform, group)

InstancesOfGroup(platform, group) ==
  Replicate(GroupDevices(platform, group), group.count)

RECURSIVE InstancesOf(_, _)
InstancesOf(platform, groups) ==
  IF groups = <<>> THEN <<>>
  ELSE InstancesOfGroup(platform, Head(groups))
         \o InstancesOf(platform, Tail(groups))

\* Config().max_batch_size() <= 0 ? NO_BATCHING : Config().max_batch_size()
\* is ContextMaxBatchSize

(***************************************************************************)
(* Signature validation.  A session offers inputs and outputs, each a      *)
(* record [name, type, shape]; the configuration declares inputs, outputs  *)
(* and sequence controls.                                                  *)
(***************************************************************************)
Names(infos) == {t.name : t \in infos}
Info(infos, name) == CHOOSE t \in infos : t.name = name

\* the dims of shape after the batch dimension of a batching model
Debatched(shape, mbs) ==
  IF mbs > 0 THEN SubSeq(shape, 2, Len(shape)) ELSE shape

\* CompareDimsSupported: ranks agree and every dim agrees, a dynamic dim of
\* the model matching anything unless compare_exact
CompareDimsSupported(model_shape, d, mbs, compare_exact) ==
  IF mbs > 0 /\ Len(model_shape) = 0 THEN "INVALID_ARG"
  ELSE LET debatched == Debatched(model_shape, mbs)
       IN IF Len(debatched) # Len(d) THEN "INVALID_ARG"
          ELSE IF \E i \in DOMAIN d :
                    /\ compare_exact \/ debatched[i] # DynamicDim
                    /\ debatched[i] # d[i]
          THEN "INVALID_ARG"
          ELSE "OK"

\* CheckAllowedModelInput / CheckAllowedModelOutput: the declared name is
\* not one of the names of the session
CheckAllowedModelInput(io, names) ==
  IF io.name \in names THEN "OK" ELSE "INVALID_ARG"

\* as ValidateSequenceControl, without the comparison of the data types
ValidateControlDimsOnly(session_inputs, control, mbs) ==
  IF control.name \notin Names(session_inputs) THEN "INTERNAL"
  ELSE IF Debatched(Info(session_inputs, control.name).shape, mbs) # <<1>>
  THEN "INVALID_ARG" ELSE "OK"

\* ValidateBooleanSequenceControl / ValidateTypedSequenceControl for one
\* control that the configuration declares
ValidateSequenceControl(session_inputs, control, mbs) ==
  IF control.name \notin Names(session_inputs) THEN "INTERNAL"
  ELSE LET info == Info(session_inputs, control.name)
       IN IF Debatched(info.shape, mbs) # <<1>> THEN "INVALID_ARG"
          ELSE IF control.data_type # info.type THEN "INVALID_ARG"
          ELSE "OK"

\* one iteration of the loop of ValidateInputs / ValidateOutputs
ValidateIO(infos, io, mbs, compare_exact) ==
  IF io.name \notin Names(infos) THEN CheckAllowedModelInput(io, Names(infos))
  ELSE LET info == Info(infos, io.name)
       IN IF io.data_type # info.type THEN "INVALID_ARG"
          ELSE CompareDimsSupported(info.shape, io.dims, mbs, compare_exact)

\* as ValidateInputs, without the comparison of the number of inputs
ValidateInputsUncounted(session_inputs, ios, expected_input_cnt, mbs) ==
  FirstError([i \in DOMAIN ios |->
                ValidateIO(session_inputs, ios[i], mbs, FALSE)])

ValidateInputs(session_inputs, ios, expected_input_cnt, mbs) ==
  IF Cardinality(session_inputs) # expected_input_cnt THEN "INVALID_ARG"
  ELSE FirstError([i \in DOMAIN ios |->
                     ValidateIO(session_inputs, ios[i], mbs, FALSE)])

ValidateOutputs(session_outputs, ios, mbs) ==
  FirstError([i \in DOMAIN ios |->
                ValidateIO(session_outputs, ios[i], mbs, TRUE)])

\* the validation part of the ONNX CreateExecutionContext: the sequence
\* controls, then the inputs, then the outputs
OnnxValidate(cfg) ==
  LET mbs == ContextMaxBatchSize(cfg.max_batch_size)
      controls == [i \in DOMAIN cfg.control |->
                     ValidateSequenceControl(cfg.session.inputs,
                                             cfg.control[i], mbs)]
  IN FirstError(controls
       \o <<ValidateInputs(cfg.session.inputs, cfg.input,
                           Len(cfg.input) + Len(cfg.control), mbs),
            ValidateOutputs(cfg.session.outputs, cfg.output, mbs)>>)

\* CreateTRTISTFModel: the TensorFlow model is loaded and its signature is
\* validated against the configuration by the same rules
CreateTRTISTFModel(cfg) == OnnxValidate(cfg)

(***************************************************************************)
(* Execution accelerators.  An accelerator is a record [name, parameters], *)
(* parameters a sequence of <<key, value>>.                                *)
(***************************************************************************)
\* ParseLongLongParameter of a value that is a number
ParseLongLongParameter(value) == "OK"

TFTensorRTParameter(p) ==
  IF p[1] = "precision_mode"
  THEN IF p[2] \in {"FP32", "FP16"} THEN "OK" ELSE "INVALID_ARG"
  ELSE IF p[1] \in {"minimum_segment_size", "max_workspace_size_bytes",
                     "max_cached_engines"}
  THEN ParseLongLongParameter(p[2])
  ELSE "INVALID_ARG"

TFGpuAccelerator(a) ==
  IF a.name = kTensorRTExecutionAccelerator
  THEN FirstError([i \in DOMAIN a.parameters |->
                     TFTensorRTParameter(a.parameters[i])])
  ELSE IF a.name = kGPUIOExecutionAccelerator THEN "OK"
  ELSE "INVALID_ARG"

\* the accelerator part of the TensorFlow CreateExecutionContext
TFAccelerators(cfg, gpu_device) ==
  IF ~cfg.has_execution_accelerators THEN "OK"
  ELSE IF cfg.cpu_execution_accelerator # <<>> THEN "INVALID_ARG"
  ELSE IF gpu_device = NO_GPU_DEVICE THEN "INVALID_ARG"
  ELSE FirstError([i \in DOMAIN cfg.gpu_execution_accelerator |->
                     TFGpuAccelerator(cfg.gpu_execution_accelerator[i])])

OnnxGpuAccelerator(flags, a) ==
  IF flags.tensorrt /\ a.name = kTensorRTExecutionAccelerator THEN "OK"
  ELSE "INVALID_ARG"

OnnxCpuAccelerator(flags, a) ==
  IF a.name = kOpenVINOExecutionAccelerator
  THEN IF flags.openvino THEN "OK" ELSE "INVALID_ARG"
  ELSE "INVALID_ARG"

\* the accelerator part of the ONNX CreateExecutionContext: the GPU
\* accelerators of a GPU context, then the CPU accelerators
OnnxAccelerators(flags, cfg, gpu_device) ==
  IF ~cfg.has_execution_accelerators THEN "OK"
  ELSE FirstError(
         (IF gpu_device # NO_GPU_DEVICE
          THEN [i \in DOMAIN cfg.gpu_execution_accelerator |->
                  OnnxGpuAccelerator(flags, cfg.gpu_execution_accelerator[i])]
          ELSE <<>>)
         \o [i \in DOMAIN cfg.cpu_execution_accelerator |->
               OnnxCpuAccelerator(flags, cfg.cpu_execution_accelerator[i])])

\* as NeedLock, but the lock is never asked for
NeverLock(flags, cfg) == FALSE

\* need_lock: an OpenVINO accelerator is configured and compiled in
NeedLock(flags, cfg) ==
  /\ cfg.platform = "onnx"
  /\ cfg.has_execution_accelerators
  /\ flags.openvino
  /\ \E i \in DOMAIN cfg.cpu_execution_accelerator :
       cfg.cpu_execution_accelerator[i].name = kOpenVINOExecutionAccelerator

\* the checks of CreateExecutionContext before the context is stored
BeforeEmplace(flags, gpu_device, fault) ==
  IF gpu_device >= 0 /\ ~flags.gpu THEN "INTERNAL"
  ELSE IF gpu_device >= 0 /\ fault = "device_properties" THEN "INTERNAL"
  ELSE IF fault = "model_file" THEN "INTERNAL"
  ELSE "OK"

\* the steps of CreateExecutionContext between the storing of the context
\* and the loading of the model
BeforeLoad(flags, cfg, gpu_device, fault) ==
  IF fault = "cuda_stream" THEN "INTERNAL"
  ELSE IF cfg.platform = "onnx" THEN OnnxAccelerators(flags, cfg, gpu_device)
  ELSE TFAccelerators(cfg, gpu_device)

(***************************************************************************)
(* The build of one model, step by step.  Each model is built by its own   *)
(* thread; the mutex global_context_mu is shared by all of them.           *)
(***************************************************************************)
ModelIds == DOMAIN models

\* collaborator failure injected at one step: none, or one of kinds
BuildFaults(kinds) ==
  {"none"} \cup (IF build_fault_budget > 0 THEN kinds ELSE {})

Spend(fault) ==
  build_fault_budget' =
    IF fault = "none" THEN build_fault_budget ELSE build_fault_budget - 1

\* as ReturnIfError, but the loop goes on after an error
IgnoreError(st) == "loop"

\* RETURN_IF_ERROR(CreateExecutionContext(...)): position of the builder
\* after a call that returned st
ReturnIfError(st) == IF IsOk(st) THEN "loop" ELSE "failed"

\* CreateExecutionContext of model m returns st: the unique_lock goes out of
\* scope, the loop counts the context or the build returns the error
ContextReturns(m, st) ==
  /\ bpc' = [bpc EXCEPT ![m] = ReturnIfError(st)]
  /\ total_context_cnt' =
       [total_context_cnt EXCEPT ![m] = IF IsOk(st) THEN @ + 1 ELSE @]
  /\ failures' = [failures EXCEPT ![m] = IF IsOk(st) THEN @ ELSE @ + 1]
  /\ build_ret' =
       [build_ret EXCEPT ![m] = IF ReturnIfError(st) = "failed" THEN st ELSE @]
  /\ global_context_mu' =
       IF global_context_mu = m THEN 0 ELSE global_context_mu

\* the loop calls CreateExecutionContext for the next instance; the call
\* runs up to the point where the lock is taken
BeginContext(m) ==
  /\ bpc[m] = "loop"
  /\ instances[m] # <<>>
  /\ LET gpu_device == Head(instances[m])
         cfg == models[m]
     IN \E fault \in BuildFaults({"model_file"} \cup
                        (IF gpu_device >= 0
                         THEN {"device_properties", "cuda_stream"} ELSE {})) :
          /\ Spend(fault)
          /\ instances' = [instances EXCEPT ![m] = Tail(@)]
          /\ IF ~IsOk(BeforeEmplace(build_flags, gpu_device, fault))
             THEN /\ ContextReturns(m, BeforeEmplace(build_flags, gpu_device,
                                                     fault))
                  /\ UNCHANGED <<contexts_, need_lock>>
             ELSE /\ contexts_' =
                       [contexts_ EXCEPT ![m] =
                          Append(@, [gpu_device |-> gpu_device,
                                     session |-> "none"])]
                  /\ IF ~IsOk(BeforeLoad(build_flags, cfg, gpu_device, fault))
                     THEN /\ ContextReturns(m, BeforeLoad(build_flags, cfg,
                                                          gpu_device, fault))
                          /\ UNCHANGED need_lock
                     ELSE /\ need_lock' =
                               [need_lock EXCEPT ![m] =
                                  NeedLock(build_flags, cfg)]
                          /\ bpc' = [bpc EXCEPT ![m] = "lock"]
                          /\ UNCHANGED <<total_context_cnt, failures,
                                         build_ret, global_context_mu>>
  /\ UNCHANGED <<build_flags, models, runners, running>>
  /\ UNCHANGED <<runVars, statusVars>>

\* if (need_lock) glock.lock(): the thread waits while another holds it
AcquireLock(m) ==
  /\ bpc[m] = "lock"
  /\ IF need_lock[m]
     THEN global_context_mu = 0 /\ global_context_mu' = m
     ELSE UNCHANGED global_context_mu
  /\ bpc' = [bpc EXCEPT ![m] = "loading"]
  /\ UNCHANGED <<build_flags, models, instances, contexts_, total_context_cnt,
                 failures, runners, build_ret, need_lock, running,
                 build_fault_budget>>
  /\ UNCHANGED <<runVars, statusVars>>

\* OnnxLoader::LoadSession / CreateTRTISTFModel returns
LoadSession(m) ==
  /\ bpc[m] = "loading"
  /\ \E fault \in BuildFaults({"load"}) :
       LET st == IF fault = "load" THEN "INTERNAL"
                 ELSE IF models[m].platform = "tf"
                 THEN CreateTRTISTFModel(models[m])
                 ELSE "OK"
       IN /\ Spend(fault)
          /\ IF IsOk(st)
             THEN /\ contexts_' =
                       [contexts_ EXCEPT
                          ![m][Len(contexts_[m])].session = "loaded"]
                  /\ bpc' = [bpc EXCEPT ![m] = "validate"]
                  /\ UNCHANGED <<total_context_cnt, failures, build_ret,
                                 global_context_mu>>
             ELSE /\ ContextReturns(m, st)
                  /\ UNCHANGED contexts_
  /\ UNCHANGED <<build_flags, models, instances, runners, need_lock, running>>
  /\ UNCHANGED <<runVars, statusVars>>

\* the rest of CreateExecutionContext: the ONNX context validates the
\* signature of its session; the call returns
Validate(m) ==
  /\ bpc[m] = "validate"
  /\ ContextReturns(m, IF models[m].platform = "onnx"
                       THEN OnnxValidate(models[m]) ELSE "OK")
  /\ UNCHANGED <<build_flags, models, instances, contexts_, runners,
                 need_lock, running, build_fault_budget>>
  /\ UNCHANGED <<runVars, statusVars>>

\* as RunnerCount, one runner more
OneRunnerMore(cnt) == cnt + 1

\* SetConfiguredScheduler(total_context_cnt, ...): the number of runners
RunnerCount(cnt) == cnt

\* the context that the thread of runner runner_idx enters:
\* Run(runner_idx, payloads, func) runs contexts_[runner_idx]
RunnerContext(runner_idx) == runner_idx

\* the loop is over: the runners are registered and the build succeeds
SetConfiguredScheduler(m) ==
  /\ bpc[m] = "loop"
  /\ instances[m] = <<>>
  /\ runners' = [runners EXCEPT ![m] = RunnerCount(total_context_cnt[m])]
  /\ build_ret' = [build_ret EXCEPT ![m] = "OK"]
  /\ bpc' = [bpc EXCEPT ![m] = "ready"]
  /\ UNCHANGED <<build_flags, models, instances, contexts_, total_context_cnt,
                 failures, need_lock, global_context_mu, running,
                 build_fault_budget>>
  /\ UNCHANGED <<runVars, statusVars>>

\* the owner of a backend whose build failed drops it, and with it the
\* contexts it stored: each unloads its session
DropBackend(m) ==
  /\ bpc[m] = "failed"
  /\ contexts_' = [contexts_ EXCEPT ![m] = <<>>]
  /\ bpc' = [bpc EXCEPT ![m] = "dropped"]
  /\ UNCHANGED <<build_flags, models, instances, total_context_cnt, failures,
                 runners, build_ret, need_lock, global_context_mu, running,
                 build_fault_budget>>
  /\ UNCHANGED <<runVars, statusVars>>

\* the scheduler thread pinned to runner runner_idx takes a batch and
\* enters Run
RunnerEnter(m, runner_idx) ==
  /\ bpc[m] = "ready"
  /\ runner_idx \in 1..runners[m]
  /\ runner_idx \notin running[m]
  /\ Cardinality(running[m]) < MaxBusy
  /\ running' = [running EXCEPT ![m] = @ \cup {runner_idx}]
  /\ UNCHANGED <<build_flags, models, bpc, instances, contexts_,
                 total_context_cnt, failures, runners, build_ret, need_lock,
                 global_context_mu, build_fault_budget>>
  /\ UNCHANGED <<runVars, statusVars>>

\* Run returns
RunnerLeave(m, runner_idx) ==
  /\ runner_idx \in running[m]
  /\ running' = [running EXCEPT ![m] = @ \ {runner_idx}]
  /\ UNCHANGED <<build_flags, models, bpc, instances, contexts_,
                 total_context_cnt, failures, runners, build_ret, need_lock,
                 global_context_mu, build_fault_budget>>
  /\ UNCHANGED <<runVars, statusVars>>

NextBuild ==
  \E m \in ModelIds :
    \/ BeginContext(m)
    \/ AcquireLock(m)
    \/ LoadSession(m)
    \/ Validate(m)
    \/ SetConfiguredScheduler(m)
    \/ DropBackend(m)
    \/ \E runner_idx \in 1..runners[m] : RunnerEnter(m, runner_idx)
    \/ \E runner_idx \in 1..runners[m] : RunnerLeave(m, runner_idx)

(***************************************************************************)
(* Initial states of a build.                                              *)
(***************************************************************************)
\* no Run is modelled
RunUnused ==
  /\ backend = "onnx"
  /\ config_max_batch_size = 0
  /\ max_batch_size = NO_BATCHING
  /\ dtype = "UINT8"
  /\ dims = <<1>>
  /\ payloads = <<>>
  /\ entry_status = <<>>
  /\ status = <<>>
  /\ pc = "unused"
  /\ ret = "none"
  /\ total_batch_size = 0
  /\ input_tensor = <<>>
  /\ output_tensors = <<>>
  /\ n_input_tensors = 0
  /\ n_output_tensors = 0
  /\ engine_runs = 0
  /\ asked = <<>>
  /\ outbuf = <<>>
  /\ alloc = <<>>
  /\ nset = <<>>
  /\ first_err = <<>>
  /\ created = 0
  /\ faults = {}
  /\ fault_budget = 0
  /\ input_shape = <<>>
  /\ input_tensors_ = <<>>
  /\ output_tensors_ = <<>>
  /\ released = [h \in Handles |-> 0]
  /\ asked_with = <<>>
  /\ enable_gpu = FALSE
  /\ stream_ = {}
  /\ enqueued = {}
  /\ read_early = {}
  /\ config_output = {}
  /\ stats_ = <<>>
  /\ timestamps = <<>>

Platforms == {"onnx", "tf"}

\* sequences over S of length at most n
RECURSIVE SeqsUpTo(_, _)
SeqsUpTo(S, n) ==
  IF n = 0 THEN {<<>>}
  ELSE LET shorter == SeqsUpTo(S, n - 1)
       IN shorter \cup {Append(q, x) : q \in shorter, x \in S}

GpuLists == {<<0>>, <<0, 1>>}

\* the instance groups a configuration of the platform can declare: KIND_CPU
\* and KIND_GPU for both, KIND_MODEL for TensorFlow only
Groups(platform) ==
  {[kind |-> "KIND_CPU", count |-> c, gpus |-> <<>>] : c \in {1, MaxCount}}
  \cup {[kind |-> "KIND_GPU", count |-> c, gpus |-> g] :
          c \in {1, MaxCount}, g \in GpuLists}
  \cup (IF platform = "tf"
        THEN {[kind |-> "KIND_MODEL", count |-> c, gpus |-> <<>>] :
                c \in {1, MaxCount}}
        ELSE {})

\* a model file whose signature is the one the configuration declares
ModelInput == [name |-> "a", data_type |-> "FP32", dims |-> <<2>>]
ModelOutput == [name |-> "y", data_type |-> "FP32", dims |-> <<2>>]
MatchingSession ==
  [inputs |-> {[name |-> "a", type |-> "FP32", shape |-> <<DynamicDim, 2>>]},
   outputs |-> {[name |-> "y", type |-> "FP32", shape |-> <<DynamicDim, 2>>]}]

\* a configuration without accelerators and sequence controls
PlainConfig(platform, groups) ==
  [platform |-> platform,
   instance_group |-> groups,
   max_batch_size |-> 2,
   has_execution_accelerators |-> FALSE,
   gpu_execution_accelerator |-> <<>>,
   cpu_execution_accelerator |-> <<>>,
   input |-> <<ModelInput>>,
   output |-> <<ModelOutput>>,
   control |-> <<>>,
   session |-> MatchingSession]

\* the builders stand at the start of the creation loop of their models
BuildersAtStart ==
  /\ bpc = [m \in ModelIds |-> "loop"]
  /\ instances = [m \in ModelIds |->
                    InstancesOf(models[m].platform, models[m].instance_group)]
  /\ contexts_ = [m \in ModelIds |-> <<>>]
  /\ total_context_cnt = [m \in ModelIds |-> 0]
  /\ failures = [m \in ModelIds |-> 0]
  /\ runners = [m \in ModelIds |-> 0]
  /\ build_ret = [m \in ModelIds |-> "none"]
  /\ need_lock = [m \in ModelIds |-> FALSE]
  /\ global_context_mu = 0
  /\ running = [m \in ModelIds |-> {}]
  /\ RunUnused
  /\ StatusUnused

\* one model of either platform with any instance groups, built with or
\* without GPU support; collaborators may fail
InitBuild ==
  /\ build_flags \in [gpu : BOOLEAN, tensorrt : {TRUE}, openvino : {TRUE}]
  /\ \E platform \in Platforms :
       \E groups \in SeqsUpTo(Groups(platform), MaxGroups) :
         models = <<PlainConfig(platform, groups)>>
  /\ build_fault_budget = MaxBuildFaults
  /\ BuildersAtStart

SpecBuild == InitBuild /\ [][NextBuild]_vars

(***************************************************************************)
(* Properties of the build.                                                *)
(***************************************************************************)
\* number of contexts the instance groups ask for
RECURSIVE ExpectedContexts(_)
ExpectedContexts(groups) ==
  IF groups = <<>> THEN 0
  ELSE Head(groups).count *
         (IF Head(groups).kind \in {"KIND_CPU", "KIND_MODEL"} THEN 1
          ELSE Len(Head(groups).gpus))
       + ExpectedContexts(Tail(groups))

\* C15: the failure of one context fails the whole build with an error: the
\* creation loop stops at the first failed call, no further context is
\* created and no runner is registered; the contexts created before the
\* failure go when the failed backend is dropped.
C15_BuildFailsAtFirstFailure ==
  \A m \in ModelIds :
    /\ failures[m] >= 1 =>
         /\ failures[m] = 1
         /\ bpc[m] \in {"failed", "dropped"}
         /\ build_ret[m] \in StatusCodes \ {"OK"}
         /\ runners[m] = 0
         /\ Len(contexts_[m]) <= total_context_cnt[m] + 1
    /\ bpc[m] = "dropped" => contexts_[m] = <<>>

C15_Witness ==
  /\ bpc[1] = "dropped"
  /\ total_context_cnt[1] >= 1
  /\ instances[1] # <<>>
  /\ build_ret[1] = "INTERNAL"
  /\ contexts_[1] = <<>>

C16_WitnessModelDevice ==
  /\ bpc[1] = "ready"
  /\ \E i \in DOMAIN models[1].instance_group :
       /\ models[1].instance_group[i].kind = "KIND_MODEL"
       /\ models[1].instance_group[i].count = 2
  /\ runners[1] >= 2

TensorTypes == {"FP32", "INT32"}

\* shapes a session reports for a data tensor and for a control tensor
DataShapes == {<<2>>, <<DynamicDim>>, <<DynamicDim, 2>>, <<DynamicDim, 3>>}
ControlShapes == {<<1>>, <<DynamicDim, 1>>, <<2>>}

\* the tensor called name is absent, or present with a type and a shape
OptionalTensor(name, types, shapes) ==
  {{}} \cup {{[name |-> name, type |-> t, shape |-> s]} :
               t \in types, s \in shapes}

SessionSignatures ==
  {[inputs |-> a \cup b \cup c, outputs |-> y] :
     a \in OptionalTensor("a", TensorTypes, DataShapes),
     b \in OptionalTensor("b", {"FP32"}, {<<DynamicDim, 2>>}),
     c \in OptionalTensor("c", TensorTypes, ControlShapes),
     y \in OptionalTensor("y", TensorTypes, DataShapes)}

\* one CPU instance of a model of either platform; the configuration
\* declares input a, output y and possibly the sequence control c; the model
\* file offers any signature
InitValidate ==
  /\ build_flags = [gpu |-> TRUE, tensorrt |-> TRUE, openvino |-> TRUE]
  /\ \E platform \in Platforms, mbs \in {0, 2}, ta \in TensorTypes,
        dy \in {<<2>>, <<DynamicDim>>},
        control \in {<<>>, <<[name |-> "c", data_type |-> "INT32"]>>},
        session \in SessionSignatures :
       models =
         <<[PlainConfig(platform,
                        <<[kind |-> "KIND_CPU", count |-> 1, gpus |-> <<>>]>>)
              EXCEPT !.max_batch_size = mbs,
                     !.input = <<[name |-> "a", data_type |-> ta,
                                  dims |-> <<2>>]>>,
                     !.output = <<[name |-> "y", data_type |-> "FP32",
                                   dims |-> dy]>>,
                     !.control = control,
                     !.session = session]>>
  /\ build_fault_budget = 0
  /\ BuildersAtStart

SpecValidate == InitValidate /\ [][NextBuild]_vars

\* the shape the configuration expects of a tensor with dims d
Unbatched(shape, cfg) ==
  IF cfg.max_batch_size > 0 THEN Tail(shape) ELSE shape

\* shape differs from dims d in rank, or in a dim that is not dynamic
DimsMismatch(shape, d, cfg) ==
  \/ cfg.max_batch_size > 0 /\ shape = <<>>
  \/ Len(Unbatched(shape, cfg)) # Len(d)
  \/ \E i \in DOMAIN d :
       /\ i <= Len(Unbatched(shape, cfg))
       /\ Unbatched(shape, cfg)[i] # DynamicDim
       /\ Unbatched(shape, cfg)[i] # d[i]

DeclaredMismatch(infos, ios, cfg) ==
  \E i \in DOMAIN ios : \E t \in infos :
    /\ t.name = ios[i].name
    /\ t.type # ios[i].data_type \/ DimsMismatch(t.shape, ios[i].dims, cfg)

ControlNames(cfg) == {cfg.control[i].name : i \in DOMAIN cfg.control}
InputNames(cfg) == {cfg.input[i].name : i \in DOMAIN cfg.input}

ExtraInput(cfg) ==
  \E t \in cfg.session.inputs :
    t.name \notin InputNames(cfg) \cup ControlNames(cfg)

MissingInput(cfg) ==
  \E i \in DOMAIN cfg.input : cfg.input[i].name \notin Names(cfg.session.inputs)

ControlDimsMismatch(cfg) ==
  \E i \in DOMAIN cfg.control : \E t \in cfg.session.inputs :
    /\ t.name = cfg.control[i].name
    /\ \/ cfg.max_batch_size > 0 /\ t.shape = <<>>
       \/ Unbatched(t.shape, cfg) # <<1>>

\* one of the mismatches between configuration and model file
SignatureMismatch(cfg) ==
  \/ DeclaredMismatch(cfg.session.inputs, cfg.input, cfg)
  \/ DeclaredMismatch(cfg.session.outputs, cfg.output, cfg)
  \/ ExtraInput(cfg)
  \/ MissingInput(cfg)
  \/ ControlDimsMismatch(cfg)

\* the builder of model m is past the validation of a context
Validated(m) == bpc[m] \in {"loop", "ready", "failed", "dropped"}
                  /\ instances[m] = <<>>

C13_WitnessRank ==
  /\ bpc[1] = "failed" /\ models[1].platform = "onnx"
  /\ ~ExtraInput(models[1]) /\ ~MissingInput(models[1])
  /\ \E t \in models[1].session.inputs :
       t.name = "a" /\ t.type = models[1].input[1].data_type
         /\ Len(Unbatched(t.shape, models[1])) # 1
  /\ build_ret[1] = "INVALID_ARG"

C13_WitnessAccepted ==
  bpc[1] = "ready" /\ runners[1] = 1 /\ models[1].control # <<>>

\* C14: when the creation of a context fails, no context is stored for the
\* instance: the backend holds as many contexts after the failed call as
\* before it.
C14_FailedContextNotStored ==
  \A m \in ModelIds :
    bpc[m] = "failed" => Len(contexts_[m]) = total_context_cnt[m]

(***************************************************************************)
(* Builds that differ in the execution accelerators of the configuration.  *)
(***************************************************************************)
TensorRTParameters ==
  {<<>>, <<<<"precision_mode", "FP16">>>>, <<<<"precision_mode", "INT8">>>>,
   <<<<"minimum_segment_size", "3">>>>, <<<<"workspace", "1">>>>}

GpuAccelerators ==
  {[name |-> kTensorRTExecutionAccelerator, parameters |-> p] :
     p \in TensorRTParameters}
  \cup {[name |-> n, parameters |-> <<>>] : n \in {"cuda", "gpu_io", "fpga"}}

CpuAccelerators ==
  {[name |-> n, parameters |-> <<>>] : n \in {"openvino", "fpga"}}

\* one instance of a model of either platform, whose model file matches the
\* configuration; the configuration names at most one GPU and one CPU
\* accelerator; the server is built with GPU support
InitAccel ==
  /\ build_flags \in [gpu : {TRUE}, tensorrt : BOOLEAN, openvino : BOOLEAN]
  /\ \E platform \in Platforms :
       \E group \in {g \in Groups(platform) :
                       g.count = 1 /\ Len(g.gpus) <= 1} :
         \E has \in BOOLEAN :
           \E gpu \in IF has THEN SeqsUpTo(GpuAccelerators, 1) ELSE {<<>>} :
             \E cpu \in IF has THEN SeqsUpTo(CpuAccelerators, 1) ELSE {<<>>} :
               models =
                 <<[PlainConfig(platform, <<group>>)
                      EXCEPT !.has_execution_accelerators = has,
                             !.gpu_execution_accelerator = gpu,
                             !.cpu_execution_accelerator = cpu]>>
  /\ build_fault_budget = 0
  /\ BuildersAtStart

SpecAccel == InitAccel /\ [][NextBuild]_vars

RecognizedParameter(p) ==
  \/ p[1] = "precision_mode" /\ p[2] \in {"FP32", "FP16"}
  \/ p[1] \in {"minimum_segment_size", "max_workspace_size_bytes",
               "max_cached_engines"}

RecognizedGpuAccelerator(a) ==
  \/ a.name = "tensorrt"
       /\ \A i \in DOMAIN a.parameters : RecognizedParameter(a.parameters[i])
  \/ a.name \in {"cuda", "gpu_io"}

\* the configuration names an accelerator or a parameter outside the
\* recognized set
Unrecognized(cfg) ==
  \/ \E i \in DOMAIN cfg.gpu_execution_accelerator :
       ~RecognizedGpuAccelerator(cfg.gpu_execution_accelerator[i])
  \/ \E i \in DOMAIN cfg.cpu_execution_accelerator :
       cfg.cpu_execution_accelerator[i].name # "openvino"

\* C19: the creation of a context fails with an invalid-argument error
\* exactly when the configuration names an accelerator or an accelerator
\* parameter outside the recognized set.
C19_UnknownAcceleratorRejected ==
  \A m \in ModelIds :
    Validated(m) =>
      ((bpc[m] \in {"failed", "dropped"} /\ build_ret[m] = "INVALID_ARG")
         <=> Unrecognized(models[m]))

(***************************************************************************)
(* Two models built at the same time.                                      *)
(***************************************************************************)
\* two ONNX models, each with one group of CPU instances, with or without
\* the OpenVINO accelerator; the server is built with or without OpenVINO
InitLock ==
  /\ build_flags \in [gpu : {TRUE}, tensorrt : {TRUE}, openvino : BOOLEAN]
  /\ \E c1, c2 \in {1, MaxCount} :
       \E a1, a2 \in SeqsUpTo({[name |-> kOpenVINOExecutionAccelerator,
                                parameters |-> <<>>]}, 1) :
         models =
           <<[PlainConfig("onnx", <<[kind |-> "KIND_CPU", count |-> c1,
                                     gpus |-> <<>>]>>)
                EXCEPT !.has_execution_accelerators = (a1 # <<>>),
                       !.cpu_execution_accelerator = a1],
             [PlainConfig("onnx", <<[kind |-> "KIND_CPU", count |-> c2,
                                     gpus |-> <<>>]>>)
                EXCEPT !.has_execution_accelerators = (a2 # <<>>),
                       !.cpu_execution_accelerator = a2]>>
  /\ build_fault_budget = 0
  /\ BuildersAtStart

SpecLock == InitLock /\ [][NextBuild]_vars

\* the configuration of model m names the OpenVINO accelerator
UsesOpenVINO(m) ==
  \E i \in DOMAIN models[m].cpu_execution_accelerator :
    models[m].cpu_execution_accelerator[i].name = "openvino"

\* the builder of model m is inside the load of a session
Loading(m) == bpc[m] = "loading"

\* C17: the loads of the sessions of models that configure OpenVINO never
\* overlap: a builder inside such a load holds the process-wide lock, so at
\* most one is inside at a time; the builder of a model without that
\* accelerator never takes the lock.
C17_LoadsSerialized ==
  /\ \A m \in ModelIds : (Loading(m) /\ UsesOpenVINO(m)) => global_context_mu = m
  /\ Cardinality({m \in ModelIds : Loading(m) /\ UsesOpenVINO(m)}) <= 1
  /\ \A m \in ModelIds : ~UsesOpenVINO(m) => global_context_mu # m

C17_Witness ==
  /\ UsesOpenVINO(1) /\ UsesOpenVINO(2)
  /\ Loading(1) /\ global_context_mu = 1
  /\ bpc[2] = "lock" /\ need_lock[2]

C17_WitnessParallel ==
  /\ ~UsesOpenVINO(1) /\ ~UsesOpenVINO(2)
  /\ Loading(1) /\ Loading(2)
  /\ global_context_mu = 0

(***************************************************************************)
(* Properties of the copies on the stream, of a context of a build with    *)
(* GPU support.                                                            *)
(***************************************************************************)
SpecCuda == InitCuda /\ [][Next]_vars

\* C21: every input copy enqueued on the stream (the direct copy of the
\* payloads' data or the gather of an indirect buffer) is synchronized
\* before the engine run starts: the engine never starts while an input copy
\* is pending
C21_InputCopiesSynchronized == "engine" \notin read_early

\* C22: when Run has returned, on whichever path, no copy this Run enqueued
\* on the stream is still unsynchronized
C22_NoCopyPendingAtReturn == pc \in {"done", "destroyed"} => stream_ = {}

C24_NoTensorsBetweenRuns ==
  pc \in {"idle", "done", "destroyed"} =>
    /\ input_tensors_ = <<>>
    /\ output_tensors_ = <<>>
    /\ n_input_tensors = 0
    /\ n_output_tensors = 0

\* a Run that created its tensors has returned an error
C24_Witness ==
  /\ pc = "done"
  /\ ret = "INTERNAL"
  /\ engine_runs = 1
  /\ created > 0

\* a Run that created its input and output tensors has returned success
C24_WitnessSuccess ==
  /\ pc = "done"
  /\ ret = "OK"
  /\ backend = "onnx"
  /\ created > 1

\* the steps of Run in their order: entry checks, staging of the inputs (with
\* the copies to the device), the engine run, the dispersion of the outputs
\* (with the copies from the device), release and return; an error leaves
\* for the return from any step
PhaseOrder ==
  {<<"idle", "staging">>, <<"staging", "staged">>, <<"staged", "ran">>,
   <<"ran", "done">>, <<"idle", "done">>, <<"staging", "done">>,
   <<"staged", "done">>, <<"idle", "destroyed">>, <<"done", "destroyed">>}

RECURSIVE ExpectedBefore(_)
ExpectedBefore(k) ==
  IF k = 1 THEN 0 ELSE ExpectedBefore(k - 1) + ExpectedElementCnt(k - 1)

\* the part of output o that belongs to payload k, as its buffer holds it:
\* the payload's elements, serialized if they are strings
SliceOf(k, o) ==
  IF dtype = "STRING"
  THEN SerializeStrings(output_tensors[o], ExpectedBefore(k),
                        ExpectedElementCnt(k))
  ELSE SubSeq(output_tensors[o],
              ExpectedBefore(k) * GetDataTypeByteSize(dtype) + 1,
              (ExpectedBefore(k) + ExpectedElementCnt(k))
                * GetDataTypeByteSize(dtype))

\* C28: the dispersion of an output gives payload k exactly the slice of the
\* output tensor that starts where the expected sizes of the payloads before
\* it end; a payload that is not given the output still advances the offset
C28_OutputSlices ==
  (pc = "done" /\ output_tensors # <<>> /\ IsOk(ret)) =>
    \A k \in PayloadIds : \A o \in DOMAIN output_tensors :
      IF o \in asked[k]
      THEN (FaultAt(faults, "alloc", k, o) = {}
              /\ FaultAt(faults, "copy_out", k, o) = {}) =>
             outbuf[k][o] = SliceOf(k, o)
      ELSE outbuf[k][o] = <<>>

\* a payload after one without a response provider received its slice
C28_Witness ==
  /\ pc = "done"
  /\ Len(payloads) = 2
  /\ ~payloads[1].provider /\ payloads[1].batch_size > 0
  /\ \A o \in Outputs : o \in asked[2] /\ outbuf[2][o] # <<>>
  /\ payloads[1].content # payloads[2].content

\* C26: when the engine run returns an error, or an output tensor expected
\* from the engine is missing or has an unexpected byte size, Run returns a
\* non-OK status for the whole batch and no provider is asked for a buffer
C26_FailedRunAllocatesNothing ==
  (pc = "done" /\ \E f \in faults : f[1] \in {"engine", "output"}) =>
    /\ ~IsOk(ret)
    /\ \A k \in PayloadIds : asked[k] = {}

\* the elements the engine tensor holds in the range of payload k
RangeOf(k) ==
  SubSeq(input_tensor, ExpectedBefore(k) + 1,
         ExpectedBefore(k) + ExpectedElementCnt(k))

\* C27: after the assembly of a string input the engine tensor holds
\* total_batch_size * batch1_element_cnt elements, and the range of payload k
\* starts at the sum of the expected counts of the payloads before it: it
\* holds the payload's elements, and for a payload that failed the elements
\* read before the failure followed by empty strings
C27_StringInputRanges ==
  (dtype = "STRING" /\ pc = "staged") =>
    /\ Len(input_tensor) = total_batch_size * Batch1ElementCnt(dims)
    /\ \A k \in PayloadIds :
         LET elems == Decode(payloads[k].content, 0).elems
         IN IF IsOk(status[k]) THEN RangeOf(k) = elems
            ELSE \E n \in 0..ExpectedElementCnt(k) :
                   /\ n <= Len(elems)
                   /\ RangeOf(k) = SubSeq(elems, 1, n)
                                     \o Fill(ExpectedElementCnt(k) - n, <<>>)

\* C29: the provider of a payload is asked for the buffer of a string output
\* only while the payload's status is OK: a payload that has failed is given
\* no buffer
C29_OnlyOkPayloadsAsked ==
  dtype = "STRING" => \A k \in PayloadIds : asked_with[k] \subseteq {"OK"}

ExpectedInputCnt(m) == Len(models[m].input) + Len(models[m].control)

\* C31: the validator expects as many session inputs as the configuration
\* declares inputs plus enabled sequence controls, and the creation of a
\* context fails with an invalid-argument error whenever the session has
\* another number of inputs
C31_InputCountChecked ==
  \A m \in ModelIds :
    (/\ Validated(m)
     /\ models[m].platform = "onnx"
     /\ Cardinality(models[m].session.inputs) # ExpectedInputCnt(m)) =>
      /\ bpc[m] \in {"failed", "dropped"}
      /\ build_ret[m] = "INVALID_ARG"

\* the session of model m has an input for the control: its tensor
ControlTensors(m, control) ==
  {t \in models[m].session.inputs : t.name = control.name}

\* the shape of tensor t of model m is [1] once the batch dimension is gone
ControlShaped(m, t) ==
  IF models[m].max_batch_size > 0
  THEN t.shape # <<>> /\ Tail(t.shape) = <<1>>
  ELSE t.shape = <<1>>

\* the creation of the context of model m has succeeded
Accepts(m) == bpc[m] \in {"loop", "ready"} /\ failures[m] = 0

\* C32: a context is created for a configuration with a sequence control
\* only if the session has an input of the control's name whose shape without
\* the batch dimension is [1] and whose type is the declared one; a wrong
\* shape or type fails with an invalid-argument error; without a configured
\* control nothing is checked for it
C32_SequenceControlChecked ==
  \A m \in ModelIds :
    (Validated(m) /\ models[m].platform = "onnx") =>
      /\ \A i \in DOMAIN models[m].control :
           LET control == models[m].control[i]
           IN /\ Accepts(m) =>
                   \E t \in ControlTensors(m, control) :
                     ControlShaped(m, t) /\ t.type = control.data_type
              /\ (\E t \in ControlTensors(m, control) :
                    ~ControlShaped(m, t) \/ t.type # control.data_type) =>
                   build_ret[m] = "INVALID_ARG"
      /\ (/\ models[m].control = <<>>
          /\ ~SignatureMismatch(models[m])
          /\ \A i \in DOMAIN models[m].output :
               \E t \in models[m].session.outputs :
                 /\ t.name = models[m].output[i].name
                 /\ Unbatched(t.shape, models[m]) = models[m].output[i].dims) =>
           Accepts(m)

\* a context was created for a model with a well-formed sequence control
C32_Witness ==
  \E m \in ModelIds :
    /\ Validated(m) /\ models[m].platform = "onnx" /\ Accepts(m)
    /\ models[m].control # <<>> /\ models[m].max_batch_size > 0

\* a control of the wrong type was rejected
C32_WitnessType ==
  \E m \in ModelIds :
    /\ Validated(m) /\ models[m].platform = "onnx"
    /\ build_ret[m] = "INVALID_ARG"
    /\ \E i \in DOMAIN models[m].control :
         \E t \in ControlTensors(m, models[m].control[i]) :
           ControlShaped(m, t) /\ t.type # models[m].control[i].data_type


(***************************************************************************)
(* Timestamps of the run: onnx_backend.cc lines 663-689, base_backend.cc   *)
(* lines 773-801.                                                          *)
(***************************************************************************)
Kinds(ts) == [i \in DOMAIN ts |-> ts[i].kind]

\* C33: kComputeInputEnd is stamped on every payload that carries a stats
\* sink, after all input staging and synchronization (no copy of input data
\* is pending on the stream at the stamp) and before the engine run starts;
\* kComputeOutputStart is stamped after the engine run returned successfully
\* and before any output is dispersed; when the engine run fails
\* kComputeOutputStart is never stamped; a payload without a stats sink is
\* never stamped.
C33_TimestampsAroundEngineRun ==
  \A k \in PayloadIds :
    /\ ~stats_[k] => timestamps[k] = <<>>
    /\ stats_[k] =>
         /\ pc = "staged" => Kinds(timestamps[k]) = <<"kComputeInputEnd">>
         /\ engine_runs > 0 =>
              /\ timestamps[k] # <<>>
              /\ Head(timestamps[k]).kind = "kComputeInputEnd"
         /\ \A i \in DOMAIN timestamps[k] :
              timestamps[k][i].kind = "kComputeInputEnd" =>
                timestamps[k][i].pending \cap InputCopies = {}
         /\ pc = "ran" =>
              /\ Kinds(timestamps[k]) =
                   <<"kComputeInputEnd", "kComputeOutputStart">>
              /\ \A j \in PayloadIds : asked[j] = {}
         /\ <<"engine", 0, 0, 0>> \in faults =>
              Kinds(timestamps[k]) = <<"kComputeInputEnd">>
         /\ Len(timestamps[k]) <= 2


(***************************************************************************)
(* The server status manager: server_status.cc.  server_status_ maps a     *)
(* model name to its ModelStatus (config and version_status), a version to *)
(* its ModelVersionStatus, a batch size to its InferRequestStats.  Every   *)
(* method runs under std::lock_guard<std::mutex> lock(mu_).                *)
(***************************************************************************)
MaxCalls == 3           \* calls made to the status manager in one behaviour
MaxThreads == 2         \* threads calling the status manager concurrently

ModelNames == {"a", "b"}
ModelVersions == {1, 2}
BatchSizes == 0..2
ModelConfigs == {"config1", "config2"}
ReadyStates == {"MODEL_READY", "MODEL_UNAVAILABLE"}
ReadyStateReasons == {"", "load failed"}
ExecutionCnts == {1}
TimestampsMs == {0, 7}
DurationsNs == {3}

\* a protobuf map after m[k] = v
Put(f, k, v) == [x \in DOMAIN f \cup {k} |-> IF x = k THEN v ELSE f[x]]

\* default-constructed messages
StatDuration == [count |-> 0, total_time_ns |-> 0]

InferRequestStats ==
  [success |-> StatDuration, failed |-> StatDuration, compute |-> StatDuration,
   queue |-> StatDuration, compute_input |-> StatDuration,
   compute_infer |-> StatDuration, compute_output |-> StatDuration]

ModelVersionStatus ==
  [ready_state |-> "MODEL_UNKNOWN", ready_state_reason |-> "",
   model_inference_count |-> 0, model_execution_count |-> 0,
   last_inference_timestamp_milliseconds |-> 0, infer_stats |-> <<>>]

\* a ModelStatus after Clear()
ModelStatus == [config |-> "", version_status |-> <<>>]

\* d->set_count(1); d->set_total_time_ns(duration)
FirstDuration(duration) == [count |-> 1, total_time_ns |-> duration]

\* d->set_count(d->count() + 1); d->set_total_time_ns(d->total_time_ns() + duration)
AddDuration(d, duration) ==
  [count |-> d.count + 1, total_time_ns |-> d.total_time_ns + duration]

\* as LockGuard, for a manager whose methods do not take mu_
NoLockGuard(mu) == TRUE

\* std::lock_guard<std::mutex> lock(mu_): the caller goes on once mu_ is free
LockGuard(mu) == mu = 0

\* as InitForModel, without the Clear() of the status of a re-added model
InitForModelKeepStatus(ss, model_name, model_config) ==
  IF model_name \notin DOMAIN ss
  THEN Put(ss, model_name, [ModelStatus EXCEPT !.config = model_config])
  ELSE Put(ss, model_name, [ss[model_name] EXCEPT !.config = model_config])

\* server_status_ after InitForModel: the status of a model not known is
\* default-constructed, the one of a re-added model goes through Clear(), then
\* the config is copied in
InitForModel(ss, model_name, model_config) ==
  Put(ss, model_name, [ModelStatus EXCEPT !.config = model_config])

\* as UpdateConfigForModel, registering a model that is not known
UpdateConfigOrInit(ss, model_name, model_config) ==
  [status |-> "OK",
   ss |-> Put(ss, model_name,
              [(IF model_name \in DOMAIN ss THEN ss[model_name] ELSE ModelStatus)
                 EXCEPT !.config = model_config])]

\* status returned by UpdateConfigForModel and server_status_ after it
UpdateConfigForModel(ss, model_name, model_config) ==
  IF model_name \notin DOMAIN ss
  THEN [status |-> "INVALID_ARG", ss |-> ss]
  ELSE [status |-> "OK",
        ss |-> Put(ss, model_name,
                   [ss[model_name] EXCEPT !.config = model_config])]

\* status returned by SetModelVersionReadyState and server_status_ after it
SetModelVersionReadyState(ss, model_name, version, state, state_reason) ==
  IF model_name \notin DOMAIN ss
  THEN [status |-> "INVALID_ARG", ss |-> ss]
  ELSE LET mvs == ss[model_name].version_status
           version_status ==
             IF version \notin DOMAIN mvs
             THEN [ModelVersionStatus EXCEPT !.ready_state = state,
                                             !.ready_state_reason = state_reason]
             ELSE [mvs[version] EXCEPT !.ready_state = state,
                                       !.ready_state_reason = state_reason]
       IN [status |-> "OK",
           ss |-> Put(ss, model_name,
                      [ss[model_name] EXCEPT
                         !.version_status = Put(mvs, version, version_status)])]

\* status returned by Get for one model and the ServerStatus it fills
GetModel(ss, model_name) ==
  IF model_name \notin DOMAIN ss
  THEN [status |-> "INVALID_ARG", server_status |-> <<>>]
  ELSE [status |-> "OK",
        server_status |-> Put(<<>>, model_name, ss[model_name])]


\* Both update methods first find the model and the version (creating the
\* version) and then write the InferRequestStats of the batch size.  The
\* first part yields server_status_ and which stats the second part writes:
\* "new" (an entry obtained with operator[]), "existing" (the entry found) or
\* "none".

\* as FailedVersion, dropping a failure whose batch size is not known
FailedVersionSkipZero(ss, model_name, model_version, batch_size, last_timestamp_ms) ==
  IF model_name \notin DOMAIN ss \/ batch_size = 0 THEN [ss |-> ss, stats |-> "none"]
  ELSE LET mvs == ss[model_name].version_status
       IN IF model_version \notin DOMAIN mvs
          THEN [ss |-> Put(ss, model_name,
                           [ss[model_name] EXCEPT !.version_status =
                              Put(mvs, model_version,
                                  [ModelVersionStatus EXCEPT
                                     !.last_inference_timestamp_milliseconds =
                                        last_timestamp_ms])]),
                stats |-> "new"]
          ELSE [ss |-> IF last_timestamp_ms > 0
                       THEN [ss EXCEPT ![model_name].version_status[model_version]
                               .last_inference_timestamp_milliseconds =
                                  last_timestamp_ms]
                       ELSE ss,
                stats |-> IF batch_size \in DOMAIN mvs[model_version].infer_stats
                          THEN "existing" ELSE "new"]

\* UpdateFailedInferStats, lines 203-229
FailedVersion(ss, model_name, model_version, batch_size, last_timestamp_ms) ==
  IF model_name \notin DOMAIN ss THEN [ss |-> ss, stats |-> "none"]
  ELSE LET mvs == ss[model_name].version_status
       IN IF model_version \notin DOMAIN mvs
          THEN [ss |-> Put(ss, model_name,
                           [ss[model_name] EXCEPT !.version_status =
                              Put(mvs, model_version,
                                  [ModelVersionStatus EXCEPT
                                     !.last_inference_timestamp_milliseconds =
                                        last_timestamp_ms])]),
                stats |-> "new"]
          ELSE [ss |-> IF last_timestamp_ms > 0
                       THEN [ss EXCEPT ![model_name].version_status[model_version]
                               .last_inference_timestamp_milliseconds =
                                  last_timestamp_ms]
                       ELSE ss,
                stats |-> IF batch_size \in DOMAIN mvs[model_version].infer_stats
                          THEN "existing" ELSE "new"]

\* the InferRequestStats is[batch_size] refers to
StatsAt(is, batch_size) ==
  IF batch_size \in DOMAIN is THEN is[batch_size] ELSE InferRequestStats

\* server_status_ with the InferRequestStats of the batch size replaced
WithStats(ss, model_name, model_version, batch_size, stats) ==
  [ss EXCEPT ![model_name].version_status[model_version].infer_stats =
     Put(ss[model_name].version_status[model_version].infer_stats,
         batch_size, stats)]

\* UpdateFailedInferStats, lines 217-220 and 230-238
FailedStats(ss, model_name, model_version, batch_size, which, request_duration_ns) ==
  IF which = "none" THEN ss
  ELSE LET is == ss[model_name].version_status[model_version].infer_stats
           stats == StatsAt(is, batch_size)
       IN WithStats(ss, model_name, model_version, batch_size,
                    [stats EXCEPT !.failed =
                       IF which = "new" THEN FirstDuration(request_duration_ns)
                       ELSE AddDuration(stats.failed, request_duration_ns)])

\* as SuccessVersion, counting one inference for a request of any batch size
SuccessVersionCountOne(ss, model_name, model_version, batch_size, execution_cnt, last_timestamp_ms) ==
  IF model_name \notin DOMAIN ss \/ batch_size = 0
  THEN [ss |-> ss, stats |-> "none"]
  ELSE LET mvs == ss[model_name].version_status
       IN IF model_version \notin DOMAIN mvs
          THEN [ss |-> Put(ss, model_name,
                           [ss[model_name] EXCEPT !.version_status =
                              Put(mvs, model_version,
                                  [ModelVersionStatus EXCEPT
                                     !.model_inference_count = batch_size,
                                     !.model_execution_count = execution_cnt,
                                     !.last_inference_timestamp_milliseconds =
                                        last_timestamp_ms])]),
                stats |-> "new"]
          ELSE [ss |-> [ss EXCEPT ![model_name].version_status[model_version] =
                          [@ EXCEPT
                             !.model_inference_count = @ + 1,
                             !.model_execution_count = @ + execution_cnt,
                             !.last_inference_timestamp_milliseconds =
                                IF last_timestamp_ms > 0 THEN last_timestamp_ms
                                ELSE @]],
                stats |-> IF batch_size \in DOMAIN mvs[model_version].infer_stats
                          THEN "existing" ELSE "new"]

\* UpdateSuccessInferStats, lines 260-290 (and 331-361 with batch size 1)
SuccessVersion(ss, model_name, model_version, batch_size, execution_cnt, last_timestamp_ms) ==
  IF model_name \notin DOMAIN ss \/ batch_size = 0
  THEN [ss |-> ss, stats |-> "none"]
  ELSE LET mvs == ss[model_name].version_status
       IN IF model_version \notin DOMAIN mvs
          THEN [ss |-> Put(ss, model_name,
                           [ss[model_name] EXCEPT !.version_status =
                              Put(mvs, model_version,
                                  [ModelVersionStatus EXCEPT
                                     !.model_inference_count = batch_size,
                                     !.model_execution_count = execution_cnt,
                                     !.last_inference_timestamp_milliseconds =
                                        last_timestamp_ms])]),
                stats |-> "new"]
          ELSE [ss |-> [ss EXCEPT ![model_name].version_status[model_version] =
                          [@ EXCEPT
                             !.model_inference_count = @ + batch_size,
                             !.model_execution_count = @ + execution_cnt,
                             !.last_inference_timestamp_milliseconds =
                                IF last_timestamp_ms > 0 THEN last_timestamp_ms
                                ELSE @]],
                stats |-> IF batch_size \in DOMAIN mvs[model_version].infer_stats
                          THEN "existing" ELSE "new"]

\* UpdateSuccessInferStats, lines 292-312; kinds are the durations the
\* overload records next to success and queue
SuccessStats(ss, model_name, model_version, batch_size, which, kinds, duration) ==
  IF which = "none" THEN ss
  ELSE LET is == ss[model_name].version_status[model_version].infer_stats
           stats == StatsAt(is, batch_size)
       IN WithStats(ss, model_name, model_version, batch_size,
                    [f \in DOMAIN stats |->
                       IF f \in {"success", "queue"} \cup kinds
                       THEN IF which = "new" THEN FirstDuration(duration)
                            ELSE AddDuration(stats[f], duration)
                       ELSE stats[f]])


(***************************************************************************)
(* The calls.  A thread that is in no call enters a method once it holds   *)
(* mu_ and leaves it when the method returns; the methods that update the  *)
(* inference statistics write the version when they enter and the          *)
(* InferRequestStats when they return.                                     *)
(***************************************************************************)
Idle == [op |-> "idle"]

\* calls counted for one version of one model
NoCalls ==
  [success |-> [b \in BatchSizes |-> 0], failed |-> [b \in BatchSizes |-> 0],
   execution_cnt |-> [b \in BatchSizes |-> 0], single |-> 0]

MayCall(t) == call[t] = Idle /\ ncalls < MaxCalls /\ LockGuard(mu_)

\* the thread calls a method and goes on once it holds mu_
Locked(t, c) ==
  /\ MayCall(t)
  /\ mu_' = t
  /\ call' = [call EXCEPT ![t] = c]
  /\ ncalls' = ncalls + 1
  /\ UNCHANGED <<server_status_, threads, call_ret, got, calls_since_init,
                 readded>>
  /\ UNCHANGED <<runVars, buildVars>>

\* the method returns st: the lock_guard goes out of scope
Returns(t, st) ==
  /\ mu_' = 0
  /\ call' = [call EXCEPT ![t] = Idle]
  /\ call_ret' = [call_ret EXCEPT ![t] = st]
  /\ UNCHANGED <<threads, ncalls>>
  /\ UNCHANGED <<runVars, buildVars>>

InitForModelCall(t, model_name, model_config) ==
  Locked(t, [op |-> "InitForModel", model_name |-> model_name,
             model_config |-> model_config])

InitForModelReturn(t) ==
  /\ call[t].op = "InitForModel"
  /\ server_status_' = InitForModel(server_status_, call[t].model_name,
                                    call[t].model_config)
  /\ calls_since_init' =
       [k \in DOMAIN calls_since_init |->
          IF k[1] = call[t].model_name THEN NoCalls ELSE calls_since_init[k]]
  /\ readded' =
       IF /\ call[t].model_name \in DOMAIN server_status_
          /\ server_status_[call[t].model_name].version_status # <<>>
       THEN readded \cup {call[t].model_name} ELSE readded
  /\ Returns(t, "OK")
  /\ UNCHANGED got

UpdateConfigForModelCall(t, model_name, model_config) ==
  Locked(t, [op |-> "UpdateConfigForModel", model_name |-> model_name,
             model_config |-> model_config])

UpdateConfigForModelReturn(t) ==
  /\ call[t].op = "UpdateConfigForModel"
  /\ LET r == UpdateConfigForModel(server_status_, call[t].model_name,
                                   call[t].model_config)
     IN server_status_' = r.ss /\ Returns(t, r.status)
  /\ UNCHANGED <<got, calls_since_init, readded>>

SetModelVersionReadyStateCall(t, model_name, version, state, state_reason) ==
  Locked(t, [op |-> "SetModelVersionReadyState", model_name |-> model_name,
             version |-> version, state |-> state,
             state_reason |-> state_reason])

SetModelVersionReadyStateReturn(t) ==
  /\ call[t].op = "SetModelVersionReadyState"
  /\ LET r == SetModelVersionReadyState(server_status_, call[t].model_name,
                                        call[t].version, call[t].state,
                                        call[t].state_reason)
     IN server_status_' = r.ss /\ Returns(t, r.status)
  /\ UNCHANGED <<got, calls_since_init, readded>>

\* Get of the whole status, lines 113-125
GetCall(t) == Locked(t, [op |-> "Get"])

GetReturn(t) ==
  /\ call[t].op = "Get"
  /\ got' = [got EXCEPT ![t] = server_status_]
  /\ Returns(t, "OK")
  /\ UNCHANGED <<server_status_, calls_since_init, readded>>

\* Get of the status of one model, lines 127-152
GetModelCall(t, model_name) ==
  Locked(t, [op |-> "GetModel", model_name |-> model_name])

GetModelReturn(t) ==
  /\ call[t].op = "GetModel"
  /\ LET r == GetModel(server_status_, call[t].model_name)
     IN got' = [got EXCEPT ![t] = r.server_status] /\ Returns(t, r.status)
  /\ UNCHANGED <<server_status_, calls_since_init, readded>>

\* the methods that update the inference statistics
UpdateOps ==
  {"UpdateFailedInferStats", "UpdateSuccessInferStats",
   "UpdateSuccessInferStatsSingle"}

\* the thread enters an update of the inference statistics
Enter(t, op, model_name, model_version, batch_size, r, duration) ==
  /\ mu_' = t
  /\ server_status_' = r.ss
  /\ call' = [call EXCEPT ![t] =
                [op |-> op, model_name |-> model_name,
                 model_version |-> model_version, batch_size |-> batch_size,
                 stats |-> r.stats, duration |-> duration]]
  /\ ncalls' = ncalls + 1
  /\ UNCHANGED <<threads, call_ret, got, readded>>
  /\ UNCHANGED <<runVars, buildVars>>

UpdateFailedInferStats(t, model_name, model_version, batch_size, last_timestamp_ms, duration) ==
  /\ MayCall(t)
  /\ Enter(t, "UpdateFailedInferStats", model_name, model_version, batch_size,
           FailedVersion(server_status_, model_name, model_version, batch_size,
                         last_timestamp_ms), duration)
  /\ calls_since_init' =
       [calls_since_init EXCEPT ![<<model_name, model_version>>]
                                   .failed[batch_size] = @ + 1]

UpdateSuccessInferStats(t, model_name, model_version, batch_size, execution_cnt, last_timestamp_ms, duration) ==
  /\ MayCall(t)
  /\ Enter(t, "UpdateSuccessInferStats", model_name, model_version, batch_size,
           SuccessVersion(server_status_, model_name, model_version,
                          batch_size, execution_cnt, last_timestamp_ms),
           duration)
  /\ calls_since_init' =
       [calls_since_init EXCEPT
          ![<<model_name, model_version>>] =
             [@ EXCEPT !.success[batch_size] = @ + 1,
                       !.execution_cnt[batch_size] = @ + execution_cnt]]

\* the overload without batch size, lines 316-401: one inference
UpdateSuccessInferStatsSingle(t, model_name, model_version, execution_cnt, last_timestamp_ms, duration) ==
  /\ MayCall(t)
  /\ Enter(t, "UpdateSuccessInferStatsSingle", model_name, model_version, 1,
           SuccessVersion(server_status_, model_name, model_version, 1,
                          execution_cnt, last_timestamp_ms), duration)
  /\ calls_since_init' =
       [calls_since_init EXCEPT ![<<model_name, model_version>>].single = @ + 1]

\* the second step of an update: the InferRequestStats, then the lock_guard
\* goes out of scope
WriteStats(t) ==
  /\ call[t].op \in UpdateOps
  /\ LET c == call[t]
     IN server_status_' =
          IF c.op = "UpdateFailedInferStats"
          THEN FailedStats(server_status_, c.model_name, c.model_version,
                           c.batch_size, c.stats, c.duration)
          ELSE SuccessStats(server_status_, c.model_name, c.model_version,
                            c.batch_size, c.stats,
                            IF c.op = "UpdateSuccessInferStats"
                            THEN {"compute"}
                            ELSE {"compute_input", "compute_infer",
                                  "compute_output"},
                            c.duration)
  /\ Returns(t, call_ret[t])
  /\ UNCHANGED <<got, calls_since_init, readded>>

\* calls of one thread after another that write the status of any model
NextStatus ==
  \E t \in threads :
    \/ \E m \in ModelNames, c \in ModelConfigs : InitForModelCall(t, m, c)
    \/ \E m \in ModelNames, c \in ModelConfigs : UpdateConfigForModelCall(t, m, c)
    \/ \E m \in ModelNames, v \in ModelVersions, s \in ReadyStates,
          r \in ReadyStateReasons : SetModelVersionReadyStateCall(t, m, v, s, r)
    \/ InitForModelReturn(t)
    \/ UpdateConfigForModelReturn(t)
    \/ SetModelVersionReadyStateReturn(t)
    \/ \E m \in ModelNames, v \in ModelVersions, b \in BatchSizes,
          ts \in TimestampsMs, d \in DurationsNs :
         UpdateFailedInferStats(t, m, v, b, ts, d)
    \/ \E m \in ModelNames, v \in ModelVersions, b \in BatchSizes,
          e \in ExecutionCnts, ts \in TimestampsMs, d \in DurationsNs :
         UpdateSuccessInferStats(t, m, v, b, e, ts, d)
    \/ \E m \in ModelNames, v \in ModelVersions,
          e \in ExecutionCnts, ts \in TimestampsMs, d \in DurationsNs :
         UpdateSuccessInferStatsSingle(t, m, v, e, ts, d)
    \/ WriteStats(t)

\* the manager of a server that tracks no model yet, called by the given threads
InitStatusWith(ts) ==
  /\ RunUnused
  /\ BuildUnused
  /\ server_status_ = <<>>
  /\ mu_ = 0
  /\ threads = ts
  /\ call = [t \in ts |-> Idle]
  /\ call_ret = [t \in ts |-> "none"]
  /\ got = [t \in ts |-> <<>>]
  /\ ncalls = 0
  /\ calls_since_init = [k \in ModelNames \X ModelVersions |-> NoCalls]
  /\ readded = {}

InitStatus == InitStatusWith({1})

SpecStatus == InitStatus /\ [][NextStatus]_vars


\* threads updating and reading the statistics of one version of a model
\* the server tracks
NextRace ==
  \E t \in threads :
    \/ \E b \in BatchSizes \ {0}, ts \in TimestampsMs, d \in DurationsNs :
         UpdateFailedInferStats(t, "a", 1, b, ts, d)
    \/ \E b \in BatchSizes \ {0}, e \in ExecutionCnts, ts \in TimestampsMs,
          d \in DurationsNs :
         UpdateSuccessInferStats(t, "a", 1, b, e, ts, d)
    \/ GetCall(t)
    \/ GetReturn(t)
    \/ \E m \in ModelNames : GetModelCall(t, m)
    \/ GetModelReturn(t)
    \/ WriteStats(t)

InitRace ==
  /\ RunUnused
  /\ BuildUnused
  /\ server_status_ \in {InitForModel(<<>>, "a", c) : c \in ModelConfigs}
  /\ mu_ = 0
  /\ threads = 1..MaxThreads
  /\ call = [t \in threads |-> Idle]
  /\ call_ret = [t \in threads |-> "none"]
  /\ got = [t \in threads |-> <<>>]
  /\ ncalls = 0
  /\ calls_since_init = [k \in ModelNames \X ModelVersions |-> NoCalls]
  /\ readded = {}

SpecRace == InitRace /\ [][NextRace]_vars

(***************************************************************************)
(* Properties of the server status manager.                                *)
(***************************************************************************)
RECURSIVE SumOf(_, _)
\* sum of f over the set s
SumOf(f, s) ==
  IF s = {} THEN 0
  ELSE LET x == CHOOSE y \in s : TRUE IN f[x] + SumOf(f, s \ {x})

\* the InferRequestStats recorded for a batch size, default when none is
StatsOf(ss, m, v, b) ==
  IF m \in DOMAIN ss /\ v \in DOMAIN ss[m].version_status
  THEN StatsAt(ss[m].version_status[v].infer_stats, b)
  ELSE InferRequestStats

\* a status in which no update of the statistics is half done: the
\* inferences counted for a version are those of its successful requests
Whole(ss) ==
  \A m \in DOMAIN ss : \A v \in DOMAIN ss[m].version_status :
    LET vs == ss[m].version_status[v]
    IN /\ vs.model_inference_count =
            SumOf([b \in DOMAIN vs.infer_stats |->
                     b * vs.infer_stats[b].success.count],
                  DOMAIN vs.infer_stats)
       /\ \A b \in DOMAIN vs.infer_stats :
            vs.infer_stats[b].success.count + vs.infer_stats[b].failed.count > 0

\* C34: every method works under the one mutex mu_, so after any
\* interleaving of n UpdateSuccessInferStats and m UpdateFailedInferStats
\* calls for the same known model, version and batch size the success count
\* is n and the failed count is m, and a Get running concurrently never
\* copies a status in which an update is half done.
C34_UpdatesSerialized ==
  /\ Cardinality({t \in threads : call[t] # Idle}) <= 1
  /\ (\A t \in threads : call[t] = Idle) =>
       \A k \in DOMAIN calls_since_init : \A b \in BatchSizes \ {0} :
         k[1] \in DOMAIN server_status_ =>
           /\ StatsOf(server_status_, k[1], k[2], b).success.count =
                calls_since_init[k].success[b]
           /\ StatsOf(server_status_, k[1], k[2], b).failed.count =
                calls_since_init[k].failed[b]
  /\ \A t \in threads : Whole(got[t])

\* two successes and a failure for the same batch size were counted, and a
\* thread has read the status while another one had updates behind it
C34_Witness ==
  /\ \A t \in threads : call[t] = Idle
  /\ \E b \in BatchSizes \ {0} :
       /\ calls_since_init[<<"a", 1>>].success[b] + calls_since_init[<<"a", 1>>].failed[b] >= 2
       /\ StatsOf(server_status_, "a", 1, b).success.count
            + StatsOf(server_status_, "a", 1, b).failed.count >= 2
       /\ \E t \in threads :
            /\ StatsOf(got[t], "a", 1, b).success.count
                 + StatsOf(got[t], "a", 1, b).failed.count >= 1
            /\ call_ret[t] = "OK"


\* the version status of a model the server tracks, default when none is
VersionOf(ss, m, v) ==
  IF v \in DOMAIN ss[m].version_status THEN ss[m].version_status[v]
  ELSE ModelVersionStatus

\* C35: after any sequence of UpdateSuccessInferStats calls (the overload
\* with batch_size, each batch size > 0) since the last InitForModel of the
\* model, each version's model_inference_count is the sum of the batch sizes
\* of the calls, its model_execution_count the sum of their execution
\* counts, and for each batch size b the success, compute and queue counts
\* are the number of calls with batch size b, whether the version entry was
\* created by such a call, by UpdateFailedInferStats or by
\* SetModelVersionReadyState.
C35_SuccessStatsAccumulate ==
  (\A t \in threads : call[t] = Idle) =>
    \A k \in DOMAIN calls_since_init :
      (k[1] \in DOMAIN server_status_ /\ calls_since_init[k].single = 0) =>
        LET n == calls_since_init[k]
            vs == VersionOf(server_status_, k[1], k[2])
        IN /\ vs.model_inference_count =
                SumOf([b \in BatchSizes |-> b * n.success[b]], BatchSizes)
           /\ vs.model_execution_count =
                SumOf(n.execution_cnt, BatchSizes \ {0})
           /\ \A b \in BatchSizes \ {0} :
                LET stats == StatsAt(vs.infer_stats, b)
                IN /\ stats.success.count = n.success[b]
                   /\ stats.compute.count = n.success[b]
                   /\ stats.queue.count = n.success[b]

\* a version created by a failed request or by a ready state has counted a
\* successful request of more than one inference
C35_Witness ==
  /\ \A t \in threads : call[t] = Idle
  /\ \E k \in DOMAIN calls_since_init :
       /\ k[1] \in DOMAIN server_status_
       /\ k[2] \in DOMAIN server_status_[k[1]].version_status
       /\ calls_since_init[k].single = 0
       /\ \/ SumOf(calls_since_init[k].failed, BatchSizes) > 0
          \/ server_status_[k[1]].version_status[k[2]].ready_state # "MODEL_UNKNOWN"
       /\ \E b \in BatchSizes :
            /\ b > 1
            /\ calls_since_init[k].success[b] > 0
            /\ server_status_[k[1]].version_status[k[2]].model_inference_count = b
            /\ StatsOf(server_status_, k[1], k[2], b).queue.count = 1

\* a version created by a successful request has counted a second one of the
\* same batch size
C35_WitnessSame ==
  /\ \A t \in threads : call[t] = Idle
  /\ \E k \in DOMAIN calls_since_init : \E b \in BatchSizes \ {0} :
       /\ k[1] \in DOMAIN server_status_
       /\ calls_since_init[k].success[b] = 2
       /\ StatsOf(server_status_, k[1], k[2], b).success.count = 2


\* thread t enters, or leaves, an update of the inference statistics
Enters(t) == call[t] = Idle /\ call'[t] # Idle

Leaves(t) == call[t] # Idle /\ call'[t] = Idle

\* the update is one the manager only logs: the model is not tracked, or a
\* successful request comes without batch size
OnlyLogged(c) ==
  /\ c.op \in UpdateOps
  /\ \/ c.model_name \notin DOMAIN server_status_
     \/ c.op = "UpdateSuccessInferStats" /\ c.batch_size = 0

\* C36: UpdateSuccessInferStats and UpdateFailedInferStats for a model that
\* was never initialized change nothing (no model entry is created);
\* UpdateSuccessInferStats with batch_size = 0 changes nothing;
\* UpdateFailedInferStats with batch_size = 0 for a tracked model is
\* recorded as a failure under batch size 0.
C36_IgnoredUpdates ==
  [][\A t \in threads :
       /\ (Enters(t) /\ OnlyLogged(call'[t])) => server_status_' = server_status_
       /\ (Leaves(t) /\ OnlyLogged(call[t])) => server_status_' = server_status_
       /\ (/\ Leaves(t)
           /\ call[t].op = "UpdateFailedInferStats"
           /\ call[t].batch_size = 0
           /\ call[t].model_name \in DOMAIN server_status_) =>
            LET c == call[t]
            IN /\ DOMAIN server_status_' = DOMAIN server_status_
               /\ StatsOf(server_status_', c.model_name, c.model_version, 0)
                    .failed.count =
                  StatsOf(server_status_, c.model_name, c.model_version, 0)
                    .failed.count + 1]_vars

\* updates were made for a model the server does not track, and a failure
\* without batch size was recorded for one it tracks
C36_Witness ==
  /\ \A t \in threads : call[t] = Idle
  /\ \E k \in DOMAIN calls_since_init :
       /\ k[1] \notin DOMAIN server_status_
       /\ SumOf(calls_since_init[k].success, BatchSizes)
            + SumOf(calls_since_init[k].failed, BatchSizes)
            + calls_since_init[k].single > 0
  /\ \E k \in DOMAIN calls_since_init :
       /\ calls_since_init[k].failed[0] > 0
       /\ StatsOf(server_status_, k[1], k[2], 0).failed.count > 0

\* a successful request without batch size was reported for a tracked model
C36_WitnessZero ==
  /\ \A t \in threads : call[t] = Idle
  /\ \E k \in DOMAIN calls_since_init :
       /\ k[1] \in DOMAIN server_status_
       /\ calls_since_init[k].success[0] > 0
       /\ k[2] \notin DOMAIN server_status_[k[1]].version_status


\* C37: InitForModel(m, cfg) always succeeds and leaves model m with the
\* config cfg and no version status or statistics, whatever was recorded
\* for m before, and leaves every other model unchanged.
C37_InitForModelResets ==
  [][\A t \in threads :
       (Leaves(t) /\ call[t].op = "InitForModel") =>
         LET m == call[t].model_name
         IN /\ call_ret'[t] = "OK"
            /\ DOMAIN server_status_' = DOMAIN server_status_ \cup {m}
            /\ server_status_'[m].config = call[t].model_config
            /\ DOMAIN server_status_'[m].version_status = {}
            /\ \A o \in DOMAIN server_status_ \ {m} :
                 server_status_'[o] = server_status_[o]]_vars

\* a model with a version status recorded was initialized again
C37_Witness ==
  /\ \A t \in threads : call[t] = Idle /\ call_ret[t] = "OK"
  /\ \E m \in readded :
       /\ m \in DOMAIN server_status_
       /\ server_status_[m].version_status = <<>>
       /\ server_status_[m].config \in ModelConfigs


\* C38: UpdateConfigForModel and SetModelVersionReadyState on a model that
\* was never initialized return InvalidArg and leave the status unchanged;
\* on a tracked model UpdateConfigForModel replaces only the config and
\* SetModelVersionReadyState sets only the ready state and the reason of the
\* named version (creating the version entry if absent), both preserving
\* the recorded statistics and every other version and model.
C38_ConfigAndReadyState ==
  [][\A t \in threads :
       (/\ Leaves(t)
        /\ call[t].op \in {"UpdateConfigForModel", "SetModelVersionReadyState"}) =>
         LET c == call[t]
             m == c.model_name
         IN IF m \notin DOMAIN server_status_
            THEN /\ call_ret'[t] = "INVALID_ARG"
                 /\ server_status_' = server_status_
            ELSE /\ call_ret'[t] = "OK"
                 /\ DOMAIN server_status_' = DOMAIN server_status_
                 /\ \A o \in DOMAIN server_status_ \ {m} :
                      server_status_'[o] = server_status_[o]
                 /\ IF c.op = "UpdateConfigForModel"
                    THEN /\ server_status_'[m].config = c.model_config
                         /\ server_status_'[m].version_status =
                              server_status_[m].version_status
                    ELSE LET mvs == server_status_[m].version_status
                             mvs1 == server_status_'[m].version_status
                         IN /\ server_status_'[m].config = server_status_[m].config
                            /\ DOMAIN mvs1 = DOMAIN mvs \cup {c.version}
                            /\ \A v \in DOMAIN mvs \ {c.version} : mvs1[v] = mvs[v]
                            /\ mvs1[c.version] =
                                 [VersionOf(server_status_, m, c.version) EXCEPT
                                    !.ready_state = c.state,
                                    !.ready_state_reason = c.state_reason]]_vars

\* one of the two methods was refused for a model the server does not track,
\* after the ready state of a version of a tracked model was set
C38_Witness ==
  /\ \E t \in threads : call[t] = Idle /\ call_ret[t] = "INVALID_ARG"
  /\ \E m \in DOMAIN server_status_ : \E v \in DOMAIN server_status_[m].version_status :
       /\ server_status_[m].version_status[v].ready_state \in ReadyStates
       /\ server_status_[m].version_status[v].ready_state_reason = "load failed"
  /\ DOMAIN server_status_ # ModelNames

\* the ready state of a version with recorded statistics was set
C38_WitnessStats ==
  /\ \A t \in threads : call[t] = Idle
  /\ \E m \in DOMAIN server_status_ : \E v \in DOMAIN server_status_[m].version_status :
       /\ server_status_[m].version_status[v].ready_state \in ReadyStates
       /\ server_status_[m].version_status[v].infer_stats # <<>>

====
